---- MODULE Spec2Model ----
(***************************************************************************)
(* lihil: the per-request pipeline of an endpoint (Injector, Endpoint,     *)
(* WebSocketEndpoint), the set-up of a Route, the parse of a handler (type  *)
(* resolution, parameter and return parsers), the middleware lists of a     *)
(* route tree, the guards of the message bus and the problem-solver         *)
(* registry, as state machines.                                             *)
(***************************************************************************)
EXTENDS Integers, Sequences, FiniteSets, TLC

\* ------------------------------------------------------------------ state
VARIABLES
    ep,        \* the endpoint under test, as set up
    injector,  \* its Injector's fields
    store,     \* contents of the mutable objects (defaults and their copies)
    scopes,    \* the DI scopes that are open
    nscopes,   \* how many scopes the graph has handed out
    req,       \* per request: the frame of Endpoint.__call__ / make_call
    rt_endpoints,   \* Route._endpoints: <<method, endpoint id>> in insertion order
    rt_call_stacks, \* Route._call_stacks: method -> endpoint id
    rt_is_setup,    \* Route._is_setup
    eps,       \* the Endpoint objects, by id
    sigs,      \* the EndpointSignature objects, by id
    heap,      \* the EndpointReturn objects, by id
    observed,  \* what callers and requests have seen of an endpoint's signature
    decl,      \* the handler declaration handed to EndpointParser.parse
    parsing,   \* the frame of EndpointParser.parse
    lists,     \* the list objects that hold middleware factories, by id
    routes,    \* the Route objects of the middleware tree, by id
    trace,     \* what the last request dispatched through a call stack traversed
    guards,    \* the guard objects of the message bus: their _next_guard
    sends,     \* per command: the frame of BusTerminal.send
    handlers,  \* the problem-solver registry: exc_handlers and status_handlers
    cache,     \* the lru_cache of get_solver
    answer     \* what the last get_solver call returned

pvars == <<ep, injector, store, scopes, nscopes, req>>
rvars == <<rt_endpoints, rt_call_stacks, rt_is_setup, eps, sigs, heap, observed>>
fvars == <<decl, parsing>>
mvars == <<lists, routes, trace>>
bvars == <<guards, sends>>
svars == <<handlers, cache, answer>>
ovars == <<mvars, bvars, svars>>
vars == <<pvars, rvars, fvars, ovars>>

\* ------------------------------------------------------------------ bounds
\* Number of requests that reach the endpoint under test, all of them able
\* to be in flight at once.
NReq == 2

Reqs == 1..NReq

\* ------------------------------------------------------------------ values
\* The MISSING sentinel, decoded values, and references to mutable objects.
MISSING == [t |-> "MISSING"]
IntV(n) == [t |-> "int", n |-> n]
StrV(s) == [t |-> "str", s |-> s]
ListV(xs) == [t |-> "list", xs |-> xs]
TupleV(xs) == [t |-> "tuple", xs |-> xs]
ObjV(s) == [t |-> "obj", s |-> s]
Ref(id) == [t |-> "ref", id |-> id]
PluginV(what, r) == [t |-> "plugin", what |-> what, r |-> r]
DepV(name, using) == [t |-> "dep", name |-> name, using |-> using]

is_present(v) == v # MISSING

\* Identity of the default object stored on a parameter, and of the copy
\* deepcopy makes of it for request r.
DefaultId(name) == [own |-> 0, of |-> name]
CopyId(r, name) == [own |-> r, of |-> name]

EmptyMap == <<>>
Put(f, k, v) == [x \in DOMAIN f \cup {k} |-> IF x = k THEN v ELSE f[x]]

\* ------------------------------------------------------------------ types
\* The target types used by the signatures below.
is_nontextual_sequence(type_) ==
    IF type_ \in {"str", "bytes"} THEN FALSE
    ELSE IF type_ \in {"list_int", "tuple_int"} THEN TRUE
    ELSE type_ \in {"set_int", "frozenset_int"}

\* ------------------------------------------------------------------ decoders
\* The decoder of a target type applied to a raw wire value: a value, or the
\* exception the decoder raises.  Textual decoders take a string (or a list
\* of strings for a multi-valued parameter), body decoders take the bytes.
Ok(v) == [ok |-> TRUE, val |-> v]
Raise(e) == [ok |-> FALSE, exc |-> e]

DecodeInt(raw) ==
    CASE raw = "0" -> Ok(IntV(0))
      [] raw = "1" -> Ok(IntV(1))
      [] raw = "2" -> Ok(IntV(2))
      [] OTHER -> Raise("ValidationError")

RECURSIVE DecodeInts(_)
DecodeInts(raws) ==
    IF raws = <<>> THEN Ok(ListV(<<>>))
    ELSE LET h == DecodeInt(Head(raws))
             t == DecodeInts(Tail(raws))
         IN IF ~h.ok THEN h
            ELSE IF ~t.ok THEN t
            ELSE Ok(ListV(<<h.val.n>> \o t.val.xs))

DecodeBody(raw) ==
    CASE raw \in {"{ok}", "form_ok"} -> Ok(ObjV(raw))
      [] raw \in {"{bad}", "form_bad"} -> Raise("ValidationError")
      [] raw = "{custom}" -> Raise("CustomValidationError")
      [] OTHER -> Raise("DecodeError")

decode(param, content) ==
    CASE param.type_ = "int" -> DecodeInt(content)
      [] param.type_ = "str" -> Ok(StrV(content))
      [] param.type_ \in {"list_int", "set_int"} -> DecodeInts(content)
      [] param.type_ = "tuple_int" ->
           LET d == DecodeInts(content)
           IN IF d.ok THEN Ok(TupleV(d.val.xs)) ELSE d
      [] OTHER -> DecodeBody(content)

\* ------------------------------------------------------------------ problems
Problem(kind, location, param) ==
    [kind |-> kind, location |-> location, param |-> param]

\* An extractor's answer: (value, MISSING) or (MISSING, problem); exc is set
\* when the step raised instead of answering.
Result(val, error) == [val |-> val, error |-> error, exc |-> "None"]
Raised(e) == [val |-> MISSING, error |-> MISSING, exc |-> e]

validate(param, raw) ==
    LET d == decode(param, raw)
    IN IF d.ok THEN Result(d.val, MISSING)
       ELSE IF d.exc = "ValidationError"
            THEN Result(MISSING, Problem("InvalidDataType", param.source, param.name))
       ELSE IF d.exc = "DecodeError"
            THEN Result(MISSING, Problem("InvalidJsonReceived", param.source, param.name))
       ELSE Result(MISSING, Problem("CustomDecodeErrorMessage", param.source, param.name))

\* deepcopy of a default: an immutable value is its own copy, a mutable
\* object is copied into a new object owned by the request.
deepcopy(default, r, name) ==
    IF default.t = "ref" THEN Ref(CopyId(r, name)) ELSE default

PathParam_extract(param, params) ==
    IF param.alias \notin DOMAIN params
    THEN Result(MISSING, Problem("MissingRequestParam", param.source, param.alias))
    ELSE validate(param, params[param.alias])

\* queries maps a wire key to the list of its occurrences, in wire order.
\* Only the first occurrence of the key.
getlist_first(queries, alias) ==
    IF alias \in DOMAIN queries THEN SubSeq(queries[alias], 1, 1) ELSE <<>>

getlist(queries, alias) ==
    IF alias \in DOMAIN queries THEN queries[alias] ELSE <<>>

get(queries, alias) ==
    IF alias \in DOMAIN queries /\ queries[alias] # <<>>
    THEN queries[alias][1] ELSE MISSING

\* A falsy value ("0") taken for an absent one.
QueryParam_extract_truthy(param, queries, r) ==
    LET alias == param.alias
        val == IF param.multivals THEN getlist(queries, alias)
               ELSE get(queries, alias)
        truthy == /\ getlist(queries, alias) # <<>>
                  /\ param.multivals \/ getlist(queries, alias)[1] # "0"
    IN IF truthy
       THEN validate(param, val)
       ELSE IF ~is_present(param.default)
       THEN Result(MISSING, Problem("MissingRequestParam", param.source, alias))
       ELSE Result(param.default, MISSING)

QueryParam_extract(param, queries, r) ==
    LET alias == param.alias
        is_multivals == param.multivals
        present == IF is_multivals THEN getlist(queries, alias) # <<>>
                   ELSE alias \in DOMAIN queries /\ queries[alias] # <<>>
    IN IF present
       THEN validate(param, IF is_multivals THEN getlist(queries, alias)
                            ELSE get(queries, alias))
       ELSE IF ~is_present(param.default)
       THEN Result(MISSING, Problem("MissingRequestParam", param.source, alias))
       ELSE IF is_multivals
       THEN Result(deepcopy(param.default, r, param.name), MISSING)
       ELSE Result(param.default, MISSING)

BodyParam_extract(param, body) ==
    IF body # ""
    THEN validate(param, body)
    ELSE IF ~is_present(param.default)
    THEN Result(MISSING, Problem("MissingRequestParam", param.source, param.alias))
    ELSE Result(param.default, MISSING)

\* len(body) == 0 holds of the empty bytes and of a form without fields.
FormParam_extract(param, body) ==
    IF body \in {"", "form_empty"}
    THEN IF is_present(param.default)
         THEN Result(param.default, MISSING)
         ELSE Result(MISSING, Problem("MissingRequestParam", param.source, param.alias))
    ELSE validate(param, body)

\* ------------------------------------------------------------------ signature
\* A request parameter as the parser leaves it in the signature.
RequestParam(name, alias, source, type_, default) ==
    [name |-> name, alias |-> alias, source |-> source, type_ |-> type_,
     default |-> default, multivals |-> is_nontextual_sequence(type_),
     cookie_name |-> "None"]

\* CookieParam: alias is the class attribute "cookie", source is inherited
\* from HeaderParam.
CookieParam(name, cookie_name, type_, default) ==
    [name |-> name, alias |-> "cookie", source |-> "header", type_ |-> type_,
     default |-> default, multivals |-> is_nontextual_sequence(type_),
     cookie_name |-> cookie_name]

BodyParam(name, type_, default) ==
    [name |-> name, alias |-> name, source |-> "body", type_ |-> type_,
     default |-> default, multivals |-> FALSE, cookie_name |-> "None",
     content_type |-> "application/json"]

FormParam(name, type_, default) ==
    [name |-> name, alias |-> name, source |-> "body", type_ |-> type_,
     default |-> default, multivals |-> FALSE, cookie_name |-> "None",
     content_type |-> "multipart/form-data"]

\* param.extract(body) on the body parameter: FormParam overrides extract.
body_extract(param, body) ==
    IF param.content_type = "multipart/form-data"
    THEN FormParam_extract(param, body)
    ELSE BodyParam_extract(param, body)

\* The fields of EndpointSignature the request path reads.  The ParamMaps
\* are insertion-ordered dicts: sequences of <<name, param>>.
EndpointSignature(hp, pp, qp, bp, form, plugins, deps, trans, scoped) ==
    [header_params |-> hp, path_params |-> pp, query_params |-> qp,
     body_param |-> bp, form_meta |-> form, plugins |-> plugins,
     dependencies |-> deps, transitive_params |-> trans, scoped |-> scoped]

sig_static(sig) ==
    /\ sig.path_params = <<>>
    /\ sig.query_params = <<>>
    /\ sig.header_params = <<>>
    /\ sig.body_param = <<>>
    /\ sig.dependencies = <<>>
    /\ sig.plugins = <<>>

\* Injector.__init__: the injector keeps the signature's maps.
Injector(sig) ==
    [header_params |-> sig.header_params,
     path_params |-> sig.path_params,
     query_params |-> sig.query_params,
     body_param |-> sig.body_param,
     form_meta |-> sig.form_meta,
     state_params |-> sig.plugins,
     deps |-> sig.dependencies,
     transitive_params |-> sig.transitive_params]

\* ------------------------------------------------------------------ ParseResult
\* ParseResult(params, errors, callbacks).  order is the history of the
\* extraction steps taken for it, exc the exception that ended extraction.
ParseResult(params, verrors, callbacks) ==
    [params |-> params, errors |-> verrors, callbacks |-> callbacks,
     order |-> <<>>, exc |-> "None"]

\* "if val is not MISSING: params[name] = val else: verrors.append(error)"
Collect(acc, phase, name, res) ==
    IF res.exc # "None" THEN [acc EXCEPT !.exc = res.exc]
    ELSE IF res.val # MISSING
    THEN [acc EXCEPT !.params = Put(@, name, res.val),
                     !.order = Append(@, <<phase, name>>)]
    ELSE [acc EXCEPT !.errors = Append(@, res.error),
                     !.order = Append(@, <<phase, name>>)]

\* cookie_parser: the cookie header's text as a name -> value mapping.
cookie_parser(text) ==
    CASE text = "sid=abc" -> [sid |-> "abc"]
      [] text = "lang=en" -> [lang |-> "en"]
      [] OTHER -> EmptyMap

RECURSIVE header_loop(_, _, _, _, _)
header_loop(items, i, headers, r, acc) ==
    IF i > Len(items) \/ acc.exc # "None" THEN acc
    ELSE LET name == items[i][1]
             param == items[i][2]
             res == IF param.alias = "cookie"
                    THEN IF "cookie" \notin DOMAIN headers THEN Raised("KeyError")
                         ELSE LET cookie_params == cookie_parser(headers["cookie"][1])
                              IN IF param.cookie_name \notin DOMAIN cookie_params
                                 THEN Raised("KeyError")
                                 ELSE validate(param, cookie_params[param.cookie_name])
                    ELSE QueryParam_extract(param, headers, r)
         IN header_loop(items, i + 1, headers, r, Collect(acc, "header", name, res))

RECURSIVE path_loop(_, _, _, _)
path_loop(items, i, paths, acc) ==
    IF i > Len(items) \/ acc.exc # "None" THEN acc
    ELSE path_loop(items, i + 1, paths,
                   Collect(acc, "path", items[i][1],
                           PathParam_extract(items[i][2], paths)))

RECURSIVE query_loop(_, _, _, _, _)
query_loop(items, i, queries, r, acc) ==
    IF i > Len(items) \/ acc.exc # "None" THEN acc
    ELSE query_loop(items, i + 1, queries, r,
                    Collect(acc, "query", items[i][1],
                            QueryParam_extract(items[i][2], queries, r)))

\* One verrors list kept by the Injector and handed to every call: it holds
\* what earlier calls appended to it.
shared_result ==
    LET earlier == {o \in Reqs : req[o].parsed.errors # <<>>}
    IN IF earlier = {} THEN ParseResult(EmptyMap, <<>>, <<>>)
       ELSE [ParseResult(EmptyMap, <<>>, <<>>) EXCEPT
                !.errors = req[CHOOSE o \in earlier : TRUE].parsed.errors]

\* "verrors = []; params = {}" and the ParseResult made of them: new
\* objects on every call.
fresh_result == ParseResult(EmptyMap, <<>>, <<>>)

\* Injector._validate_conn, for the connection of request r.
validate_conn(inj, conn, r) ==
    LET start == fresh_result
        h == header_loop(inj.header_params, 1, conn.headers, r, start)
        p == path_loop(inj.path_params, 1, conn.path_params, h)
    IN query_loop(inj.query_params, 1, conn.query_params, r, p)

\* The plugin loop of validate_request / validate_websocket: a plugin
\* parameter whose type is the connection class or Resolver is filled in.
RECURSIVE plugin_loop(_, _, _, _, _, _)
plugin_loop(items, i, ctype, r, resolver, acc) ==
    IF i > Len(items) THEN acc
    ELSE LET name == items[i][1]
             ptype == items[i][2]
             nxt == IF ptype = ctype
                    THEN [acc EXCEPT !.params = Put(@, name, PluginV(ctype, r)),
                                     !.order = Append(@, <<"plugin", name>>)]
                    ELSE IF ptype = "Resolver"
                    THEN [acc EXCEPT !.params = Put(@, name, PluginV("Resolver", resolver)),
                                     !.order = Append(@, <<"plugin", name>>)]
                    ELSE acc
         IN plugin_loop(items, i + 1, ctype, r, resolver, nxt)

\* "for p in self.transitive_params: params.pop(p)"
strip_transitive(inj, params) ==
    [x \in DOMAIN params \ inj.transitive_params |-> params[x]]

\* ------------------------------------------------------------------ endpoints
\* async_wrapper(func, threaded=...) called while an event loop is or is not
\* running: a coroutine function is answered as it is ("func"), and a plain
\* function as "inner", which runs it with loop.run_in_executor, or as
\* "dummy", which calls it where it is awaited.
async_wrapper(coroutine, threaded, running) ==
    IF coroutine THEN "func"
    ELSE IF ~running THEN "dummy"
    ELSE IF threaded THEN "inner" ELSE "dummy"

\* Endpoint.__init__: "self._func = async_wrapper(func, threaded=
\* props.to_thread, workers=workers)", for a handler that is or is not a
\* coroutine function, on an endpoint made with or without a running loop.
Endpoint_func(coroutine, to_thread, running) ==
    [coroutine |-> coroutine, to_thread |-> to_thread, running |-> running,
     call |-> async_wrapper(coroutine, to_thread, running)]

\* Endpoint._setup / WebSocketEndpoint.setup: what the endpoint keeps of its
\* signature and props.  The handler is a coroutine function unless
\* SyncEndpoint says otherwise.
Endpoint_setup(sig, props_scoped) ==
    [kind |-> "http", sig |-> sig, props_scoped |-> props_scoped,
     static |-> sig_static(sig),
     scoped |-> (sig.scoped \/ props_scoped),
     func |-> Endpoint_func(TRUE, TRUE, TRUE)]

WebSocketEndpoint_setup(sig, props_scoped) ==
    [kind |-> "ws", sig |-> sig, props_scoped |-> props_scoped,
     static |-> FALSE,
     scoped |-> sig.scoped,
     func |-> Endpoint_func(TRUE, TRUE, TRUE)]

\* An endpoint whose handler is a plain (blocking) function.
SyncEndpoint(sig, to_thread, running) ==
    [Endpoint_setup(sig, FALSE) EXCEPT !.func = Endpoint_func(FALSE, to_thread, running)]

\* The thread the handler's body runs on when the endpoint awaits
\* self._func: a worker of the executor for "inner", else the thread of the
\* event loop.
RunsOn(e) == IF e.func.call = "inner" THEN "worker" ELSE "loop"

\* get_solver: the default solver answers every HTTPException (of which
\* InvalidRequestErrors is one); other exceptions have none.
get_solver(e) == e \in {"InvalidRequestErrors", "HTTPException"}

\* "except Exception" catches everything but a cancellation.
IsException(e) == e \notin {"None", "CancelledError"}

\* ------------------------------------------------------------------ signatures
\* The handlers under test.
\*   wide(h: int header "x-h", c: cookie "sid", p: int path, q: list[int] = [..])
SigWide ==
    EndpointSignature(
        << <<"h", RequestParam("h", "x-h", "header", "int", MISSING)>>,
           <<"c", CookieParam("c", "sid", "str", MISSING)>> >>,
        << <<"p", RequestParam("p", "p", "path", "int", MISSING)>> >>,
        << <<"q", RequestParam("q", "q", "query", "list_int", Ref(DefaultId("q")))>> >>,
        <<>>, FALSE, <<>>, <<>>, {}, FALSE)

\*   upload(f: Annotated[Data, Form()], req: Request, d: Dep) where Dep needs
\*   the query parameter t, which upload itself does not take
SigForm ==
    EndpointSignature(
        <<>>, <<>>,
        << <<"t", RequestParam("t", "t", "query", "int", MISSING)>> >>,
        <<"f", FormParam("f", "struct", MISSING)>>,
        TRUE,
        << <<"req", "Request">>, <<"bus", "EventBus">> >>,
        << <<"d", [dependent |-> "Dep"]>> >>,
        {"t"}, TRUE)

\*   items(q: list[int] = [..], b: Annotated[list[int], Param("body")] = [..])
SigDefaults ==
    EndpointSignature(
        <<>>, <<>>,
        << <<"q", RequestParam("q", "q", "query", "list_int", Ref(DefaultId("q")))>> >>,
        <<"b", BodyParam("b", "struct", Ref(DefaultId("b")))>>,
        FALSE, <<>>, <<>>, {}, FALSE)

\*   chat(ws: WebSocket, d: Dep) where Dep needs the query parameter t
SigWs(scoped) ==
    EndpointSignature(
        <<>>, <<>>,
        << <<"t", RequestParam("t", "t", "query", "int", MISSING)>> >>,
        <<>>, FALSE,
        << <<"ws", "WebSocket">> >>,
        << <<"d", [dependent |-> "Dep"]>> >>,
        {"t"}, scoped)

\*   ping()
SigStatic ==
    EndpointSignature(<<>>, <<>>, <<>>, <<>>, FALSE, <<>>, <<>>, {}, FALSE)

\*   search(n: tuple[int, ...], t: Annotated[list[int], Param("header", alias="x-t")],
\*          q: int = 42, h: Annotated[int, Param("header", alias="x-h")] = 7)
SigQuery ==
    EndpointSignature(
        << <<"t", RequestParam("t", "x-t", "header", "list_int", MISSING)>>,
           <<"h", RequestParam("h", "x-h", "header", "int", IntV(7))>> >>,
        <<>>,
        << <<"n", RequestParam("n", "n", "query", "tuple_int", MISSING)>>,
           <<"q", RequestParam("q", "q", "query", "int", IntV(42))>> >>,
        <<>>, FALSE, <<>>, <<>>, {}, FALSE)

Endpoints ==
    { Endpoint_setup(SigWide, FALSE),
      Endpoint_setup(SigQuery, FALSE),
      Endpoint_setup(SigForm, FALSE),
      Endpoint_setup(SigDefaults, TRUE),
      Endpoint_setup(SigStatic, FALSE),
      WebSocketEndpoint_setup(SigWs(TRUE), FALSE),
      WebSocketEndpoint_setup(SigWs(FALSE), TRUE) }
      \cup { SyncEndpoint(SigStatic, to_thread, running) :
                to_thread \in BOOLEAN, running \in BOOLEAN }
      \cup { SyncEndpoint(SigDefaults, TRUE, running) : running \in BOOLEAN }

\* ------------------------------------------------------------------ connections
\* At most MaxBad parameters of one request to the wide handler are invalid.
MaxBad == 2

Connection(headers, path_params, query_params, body) ==
    [headers |-> headers, path_params |-> path_params,
     query_params |-> query_params, body |-> body]

\* A mapping holding the keys whose wire value is not "absent".
Wire(keys, vals) ==
    [k \in {x \in keys : vals[x] # <<>>} |-> vals[k]]

B2N(b) == IF b THEN 1 ELSE 0

ConnsWide ==
    { Connection(Wire({"x-h", "cookie"}, [x \in {"x-h", "cookie"} |->
                         IF x = "x-h" THEN hv ELSE cv]),
                 [p |-> pv],
                 Wire({"q"}, [q |-> qv]),
                 "") :
        <<hv, cv, pv, qv>> \in
          { w \in {<<"1">>, <<>>} \X {<<"sid=abc">>, <<>>}
                  \X {"1", "x"} \X {<<>>, <<"1", "x">>} :
              B2N(w[1] # <<"1">>) + B2N(w[2] # <<"sid=abc">>) + B2N(w[3] # "1")
                + B2N(w[4] # <<>>) <= MaxBad } }

\* The upload handler's requests: every form outcome with t present, and a
\* missing t together with a good and with an unreadable form.
ConnsForm ==
    { Connection(EmptyMap, EmptyMap, Wire({"t"}, [t |-> tv]), bv) :
        <<tv, bv>> \in ({<<"1">>} \X {"mpexc", "form_empty", "form_ok", "form_bad"})
                        \cup ({<<>>} \X {"mpexc", "form_bad"}) }

ConnsDefaults ==
    { Connection(EmptyMap, EmptyMap, Wire({"q"}, [q |-> qv]), bv) :
        <<qv, bv>> \in {<<>>, <<"1", "2">>} \X {"", "{ok}"} }

ConnsWs ==
    { Connection(EmptyMap, EmptyMap, Wire({"t"}, [t |-> tv]), "") :
        tv \in {<<"1">>, <<"x">>, <<>>} }

ConnsStatic == { Connection(EmptyMap, EmptyMap, EmptyMap, "") }

\* The search handler's requests: each key absent or present, the repeated
\* keys with two occurrences.
ConnsQuery ==
    { Connection(Wire({"x-t", "x-h"}, [x \in {"x-t", "x-h"} |->
                         IF x = "x-t" THEN w[1] ELSE w[2]]),
                 EmptyMap,
                 Wire({"n", "q"}, [x \in {"n", "q"} |->
                         IF x = "n" THEN w[3] ELSE w[4]]),
                 "") :
        w \in {<<>>, <<"1", "2">>} \X {<<>>, <<"0">>}
                \X {<<>>, <<"2", "1">>} \X {<<>>, <<"0">>} }

ConnsOf(e) ==
    CASE e.sig = SigWide -> ConnsWide
      [] e.sig = SigForm -> ConnsForm
      [] e.sig = SigDefaults -> ConnsDefaults
      [] e.sig = SigStatic -> ConnsStatic
      [] e.sig = SigQuery -> ConnsQuery
      [] OTHER -> ConnsWs

\* ------------------------------------------------------------------ route
Methods == {"GET", "POST"}

\* Number of Endpoint objects add_endpoint creates on the route.
MaxEndpoints == 3

\* Handlers: one without and one with a return annotation.
Funcs == { [name |-> "plain", annotated |-> FALSE],
           [name |-> "typed", annotated |-> TRUE] }

\* The plugin lists an endpoint's props may carry.
PluginLists == { <<>>, <<"jwt_encode">> }

EndpointReturn(type_, status, encoder) ==
    [type_ |-> type_, status |-> status, encoder |-> encoder]

\* The module-level DEFAULT_RETURN object: the first object of the heap.
DEFAULT_RETURN == 1

InitHeap == << EndpointReturn("MISSING", 200, "encoder") >>

\* parse_returns: an unannotated return is answered with DEFAULT_RETURN
\* itself, an annotated one with a new EndpointReturn.
parse_returns(annotated, hp) ==
    IF ~annotated
    THEN [ret |-> DEFAULT_RETURN, heap |-> hp]
    ELSE [ret |-> Len(hp) + 1,
          heap |-> Append(hp, EndpointReturn("T", 200, "encoder"))]

\* EndpointParser.parse: a new EndpointSignature whose return_params hold
\* what parse_returns answered.
parse(func, st) ==
    LET rp == parse_returns(func.annotated, st.heap)
    IN [st EXCEPT !.sigs = Append(@, [func |-> func.name, default_return |-> rp.ret]),
                  !.heap = rp.heap]

\* jwt_encoder_factory: "ep_info.sig.default_return.encoder = encode_jwt;
\* ep_info.sig.default_return.type_ = scheme_type"
jwt_encoder_factory(sid, st) ==
    [st EXCEPT !.heap[st.sigs[sid].default_return] =
                  [@ EXCEPT !.encoder = "encode_jwt", !.type_ = "OAuth2Token"]]

\* "func = decor(ep_info)": the plugin is given the function as it stands
\* (st.func, the plugins around the handler, outermost first) and answers
\* the function that replaces it; st.applied is the history of these calls.
decor(plugin, sid, st) ==
    LET st1 == IF plugin = "jwt_encode" THEN jwt_encoder_factory(sid, st) ELSE st
    IN [st1 EXCEPT !.applied = Append(@, [decor |-> plugin, func |-> st.func]),
                   !.func = <<plugin>> \o st.func]

\* A _chainup_plugins that has no "seen" check.
RECURSIVE chainup_plugins_all(_, _, _, _, _)
chainup_plugins_all(plugins, i, seen, sid, st) ==
    IF i > Len(plugins) THEN st
    ELSE chainup_plugins_all(plugins, i + 1, seen, sid, decor(plugins[i], sid, st))

\* Endpoint._chainup_plugins: every distinct plugin is applied once.
RECURSIVE chainup_plugins(_, _, _, _, _)
chainup_plugins(plugins, i, seen, sid, st) ==
    IF i > Len(plugins) THEN st
    ELSE IF plugins[i] \in seen THEN chainup_plugins(plugins, i + 1, seen, sid, st)
    ELSE chainup_plugins(plugins, i + 1, seen \cup {plugins[i]}, sid,
                         decor(plugins[i], sid, st))

\* Endpoint.__init__.  parsed and setups count the parses and set-ups of the
\* endpoint, at_setup is its signature as its set-up left it.
Endpoint(method, func, plugins) ==
    [method |-> method, func |-> func, plugins |-> plugins,
     is_setup |-> FALSE, sig |-> 0, encoder |-> "None",
     parsed |-> 0, setups |-> 0,
     at_setup |-> [sig |-> 0, contents |-> InitHeap[DEFAULT_RETURN]]]

\* The contents of a signature: its default return.
Contents(sid, sg, hp) == hp[sg[sid].default_return]

\* Endpoint._setup(sig, graph) on endpoint e.
Endpoint__setup(e, sid, st) ==
    LET st1 == chainup_plugins(st.eps[e].plugins, 1, {}, sid,
                               [st EXCEPT !.func = <<"handler">>, !.applied = <<>>])
    IN [st1 EXCEPT !.eps[e] =
           [@ EXCEPT !.sig = sid,
                     !.encoder = Contents(sid, st1.sigs, st1.heap).encoder,
                     !.is_setup = TRUE,
                     !.setups = @ + 1,
                     !.at_setup = [sig |-> sid,
                                   contents |-> Contents(sid, st1.sigs, st1.heap)]]]

\* The loop of Route._setup over self._endpoints.items().
RECURSIVE Route_setup(_, _)
Route_setup(st, i) ==
    IF i > Len(st.endpoints) THEN st
    ELSE LET method == st.endpoints[i][1]
             e == st.endpoints[i][2]
         IN IF st.eps[e].is_setup THEN Route_setup(st, i + 1)
            ELSE LET st1 == parse(st.eps[e].func,
                                  [st EXCEPT !.eps[e].parsed = @ + 1])
                     st2 == Endpoint__setup(e, Len(st1.sigs), st1)
                 IN Route_setup([st2 EXCEPT !.call_stacks = Put(@, method, e)], i + 1)

RouteState ==
    [endpoints |-> rt_endpoints, call_stacks |-> rt_call_stacks,
     eps |-> eps, sigs |-> sigs, heap |-> heap,
     func |-> <<"handler">>, applied |-> <<>>]

\* The endpoint registered for a method, 0 when there is none.
EndpointOf(endpoints, method) ==
    LET at == {i \in DOMAIN endpoints : endpoints[i][1] = method}
    IN IF at = {} THEN 0 ELSE endpoints[CHOOSE i \in at : TRUE][2]

\* What a caller sees of endpoint e's signature.
Observation(e, st) ==
    [ep |-> e, sig |-> st.eps[e].sig,
     contents |-> Contents(st.eps[e].sig, st.sigs, st.heap)]

InitRoute ==
    /\ rt_endpoints = <<>>
    /\ rt_call_stacks = EmptyMap
    /\ rt_is_setup = FALSE
    /\ eps = <<>>
    /\ sigs = <<>>
    /\ heap = InitHeap
    /\ observed = {}

\* No middleware tree, no command in flight and an empty solver registry.
InitMiddleware ==
    /\ lists = <<>>
    /\ routes = <<>>
    /\ trace = <<>>

InitBus ==
    /\ guards = <<>>
    /\ sends = <<>>

InitSolvers ==
    /\ handlers = EmptyMap
    /\ cache = EmptyMap
    /\ answer = <<>>

InitOther == InitMiddleware /\ InitBus /\ InitSolvers

\* ------------------------------------------------------------------ type expressions
\* A type expression as the parsers see it: a class, Annotated[origin,
\* *metadata], a TypeAliasType around its value, or typing.Union[*args].
\* A metadata item is a marker Meta(k, v) (k = "Param" for Param(source),
\* "status" for a status code, "resp" for a response mark, "meta" for any
\* other object) or an Annotated expression.
Cls(n) == [k |-> "class", n |-> n]
Meta(k, v) == [k |-> k, v |-> v]
TypeAliasType(value) == [k |-> "TypeAliasType", value |-> value]
Union(args) == [k |-> "Union", args |-> args]

\* Annotated[origin, *metadata] as Python builds it: an origin that is
\* itself Annotated is folded into one Annotated, its metadata first.
Annotated(origin, metadata) ==
    IF origin.k = "Annotated"
    THEN [k |-> "Annotated", origin |-> origin.origin,
          metadata |-> origin.metadata \o metadata]
    ELSE [k |-> "Annotated", origin |-> origin, metadata |-> metadata]

\* deannotate: (annt, None) for an expression with fewer than two type
\* arguments, else the origin and the metadata with every Annotated item
\* replaced by its own flattened metadata.  None is the empty sequence here:
\* the code never answers an empty list.
RECURSIVE deannotate(_)
deannotate(annt) ==
    IF annt.k # "Annotated" THEN [type |-> annt, metas |-> <<>>]
    ELSE LET metadata == annt.metadata
             flattened_metadata[i \in 0..Len(metadata)] ==
                 IF i = 0 THEN <<>>
                 ELSE LET item == metadata[i]
                      IN IF item.k = "Annotated"
                         THEN flattened_metadata[i - 1] \o deannotate(item).metas
                         ELSE Append(flattened_metadata[i - 1], item)
         IN [type |-> annt.origin, metas |-> flattened_metadata[Len(metadata)]]

\* The class under the wrappers, with no metadata at all.
RECURSIVE get_origin_pro_unmarked(_, _)
get_origin_pro_unmarked(type_, metas) ==
    CASE type_.k = "TypeAliasType" -> get_origin_pro_unmarked(type_.value, metas)
      [] type_.k = "Annotated" -> get_origin_pro_unmarked(type_.origin, metas)
      [] OTHER -> [type |-> type_, metas |-> <<>>]

\* The metadata gathered so far put before the metadata found further in.
RECURSIVE get_origin_pro_outer_first(_, _)
get_origin_pro_outer_first(type_, metas) ==
    CASE type_.k = "TypeAliasType" -> get_origin_pro_outer_first(type_.value, metas)
      [] type_.k = "Annotated" ->
           get_origin_pro_outer_first(type_.origin, metas \o deannotate(type_).metas)
      [] OTHER -> [type |-> type_, metas |-> metas]

\* get_origin_pro(type_, metas): the TypeAliasType, Annotated and plain
\* branches.  typing.Union has the origin typing.Union, which is none of the
\* origins the function looks into, so a Union is answered as it is.
RECURSIVE get_origin_pro(_, _)
get_origin_pro(type_, metas) ==
    CASE type_.k = "TypeAliasType" -> get_origin_pro(type_.value, metas)
      [] type_.k = "Annotated" ->
           LET d == deannotate(type_)
               local_metas == IF d.metas # <<>> /\ metas # <<>>
                              THEN d.metas \o metas ELSE d.metas
           IN get_origin_pro(d.type, local_metas)
      [] OTHER -> [type |-> type_, metas |-> metas]

\* ------------------------------------------------------------------ parameter parser
\* ParamBase.required: a parameter is required when it has no default.
required(param) == ~is_present(param.default)

\* PathParam(...) with its __post_init__: "if not self.required: raise
\* NotSupportedError".
PathParam_with_default(name, type_, default) ==
    Ok(RequestParam(name, name, "path", type_, default))

PathParam(name, type_, default) ==
    LET self == RequestParam(name, name, "path", type_, default)
    IN IF ~required(self) THEN Raise("NotSupportedError") ELSE Ok(self)

\* A handler declaration: its parameters <<name, annotation, default>> in
\* order, the keys of the route's path template, the types registered in
\* the dependency graph, the return annotation and the endpoint's plugins.
Declaration(params, path_keys, registered, ret, plugins) ==
    [params |-> params, path_keys |-> path_keys, registered |-> registered,
     ret |-> ret, plugins |-> plugins]

\* EndpointParser.parse_param: the classification of one parameter, in
\* priority order: a path key, an explicit Param(source) marker (a body
\* marker always gives a BodyParam), a type registered in the graph, a
\* textual or scalar type (query), a structured type (body).
parse_param(name, annt, default, d) ==
    LET r == get_origin_pro(annt, <<>>)
        type_ == r.type.n
        IsSource(m) == m.k = "Param"
        sources == SelectSeq(r.metas, IsSource)
    IN CASE name \in d.path_keys -> PathParam(name, type_, default)
         [] Len(sources) > 1 -> Raise("InvalidParamError")
         [] Len(sources) = 1 /\ sources[1].v = "body" ->
              Ok(BodyParam(name, type_, default))
         [] Len(sources) = 1 /\ sources[1].v = "path" ->
              PathParam(name, type_, default)
         [] Len(sources) = 1 ->
              Ok(RequestParam(name, name, sources[1].v, type_, default))
         [] type_ \in d.registered ->
              Ok([name |-> name, source |-> "dependency", dependent |-> type_])
         [] type_ \in {"int", "str"} ->
              Ok(RequestParam(name, name, "query", type_, default))
         [] type_ \in {"Payload", "Struct"} ->
              Ok(BodyParam(name, type_, default))
         [] OTHER -> Raise("InvalidParamError")

\* EndpointParams.get_body on the bodies map (<<name, param>> pairs in
\* insertion order): None, the only item, or NotSupportedError.
get_body_first(bodies) ==
    IF bodies = <<>> THEN Ok(<<>>) ELSE Ok(bodies[1])

get_body(bodies) ==
    IF bodies = <<>> THEN Ok(<<>>)
    ELSE IF Len(bodies) = 1 THEN Ok(bodies[1])
    ELSE Raise("NotSupportedError")

\* ------------------------------------------------------------------ return parser
\* inspect.Parameter.empty: the handler has no return annotation.
Parameter_empty == [k |-> "empty"]

\* is_empty_return: "t is None or t is Literal[None]".
is_empty_return(t) == t \in {"None", "Literal[None]"}

\* EndpointReturn.__post_init__ raises StatusConflictError for this one.
StatusConflict(self) ==
    /\ self.status < 200 \/ self.status \in {204, 205, 304}
    /\ ~is_empty_return(self.type_)

\* parse_return_pro: status 200 unless the metadata holds a status marker
\* (the last one wins); a response mark "empty" and any other object leave
\* type and status alone.  The EndpointReturn is answered, or the error its
\* construction raises.  An EndpointReturn names its type: the class name,
\* or "Union" for a union.
parse_return_pro(ret_type, metas) ==
    LET status[i \in 0..Len(metas)] ==
            IF i = 0 THEN 200
            ELSE IF metas[i].k = "status" THEN metas[i].v ELSE status[i - 1]
        type_ == IF ret_type.k = "class" THEN ret_type.n ELSE "Union"
        ret == EndpointReturn(type_, status[Len(metas)], "encoder")
    IN IF StatusConflict(ret) THEN Raise("StatusConflictError") ELSE Ok(ret)

\* parse_returns: the dict status -> EndpointReturn, as <<status, return>>
\* pairs in insertion order; a key set again keeps its place and takes the
\* new value.
parse_returns_map(annt) ==
    IF annt = Parameter_empty
    THEN Ok(<< <<InitHeap[DEFAULT_RETURN].status, InitHeap[DEFAULT_RETURN]>> >>)
    ELSE IF annt.k # "Union"
    THEN LET r == get_origin_pro(annt, <<>>)
             res == parse_return_pro(r.type, r.metas)
         IN IF res.ok THEN Ok(<< <<res.val.status, res.val>> >>) ELSE res
    ELSE LET unions == annt.args
             temp_union == [i \in DOMAIN unions |-> get_origin_pro(unions[i], <<>>)]
             has_status(i) == \E j \in DOMAIN temp_union[i].metas :
                                  temp_union[i].metas[j].k = "status"
             resp_cnt == Cardinality({i \in DOMAIN unions : has_status(i)})
         IN IF resp_cnt # 0 /\ resp_cnt # Len(unions)
            THEN Raise("NotSupportedError")
            ELSE IF resp_cnt = 0
            THEN LET u == get_origin_pro(annt, <<>>)
                     resp == parse_return_pro(u.type, u.metas)
                 IN IF resp.ok THEN Ok(<< <<resp.val.status, resp.val>> >>) ELSE resp
            ELSE LET resps == [i \in DOMAIN unions |->
                                  parse_return_pro(temp_union[i].type,
                                                   temp_union[i].metas)]
                     failed == {i \in DOMAIN unions : ~resps[i].ok}
                     dict[i \in 0..Len(unions)] ==
                         IF i = 0 THEN <<>>
                         ELSE LET k == resps[i].val.status
                                  at == {j \in DOMAIN dict[i - 1] : dict[i - 1][j][1] = k}
                              IN IF at = {}
                                 THEN Append(dict[i - 1], <<k, resps[i].val>>)
                                 ELSE [dict[i - 1] EXCEPT
                                          ![CHOOSE j \in at : TRUE] = <<k, resps[i].val>>]
                 IN IF failed # {}
                    THEN resps[CHOOSE i \in failed : \A j \in failed : i <= j]
                    ELSE Ok(dict[Len(unions)])

\* ------------------------------------------------------------------ parse frame
\* The frame of EndpointParser.parse followed by the rest of the endpoint's
\* set-up: the next parameter i, what get_origin_pro answered for each
\* parameter so far, the ParamLikes in order, the signature (<<>> until it
\* is built) with its return_params, and the exception that ended it.
ParseFrame(pc) ==
    [pc |-> pc, i |-> 1, resolved |-> <<>>, results |-> <<>>,
     sig |-> <<>>, return_params |-> <<>>, exc |-> "None",
     func |-> <<"handler">>, applied |-> <<>>]

NoDecl == Declaration(<<>>, {}, {}, Parameter_empty, <<>>)

\* ------------------------------------------------------------------ state

NoConn == Connection(EmptyMap, EmptyMap, EmptyMap, "")

Idle ==
    [pc |-> "idle", conn |-> NoConn, resolver |-> 0,
     parsed |-> ParseResult(EmptyMap, <<>>, <<>>),
     callbacks |-> <<>>, ran |-> <<>>, depi |-> 1,
     exc |-> "None", ret |-> "None", args |-> MISSING, log |-> <<>>,
     raised |-> "None", thread |-> "None"]

InitStore ==
    [id \in {DefaultId("q"), DefaultId("b")} |-> <<7>>]

Init ==
    /\ ep \in Endpoints
    /\ injector = Injector(ep.sig)
    /\ store = InitStore
    /\ scopes = {}
    /\ nscopes = 0
    /\ req = [r \in Reqs |-> Idle]
    /\ InitRoute
    /\ InitOther
    /\ decl = NoDecl
    /\ parsing = ParseFrame("idle")

connType == IF ep.kind = "ws" THEN "WebSocket" ELSE "Request"

\* ------------------------------------------------------------------ frames
\* make_call is over (q.exc is the exception leaving it, if any): the rest
\* of __call__.
LeaveMakeCall(q) ==
    IF ep.scoped THEN [q EXCEPT !.pc = "exit"]
    ELSE IF q.exc # "None" \/ ep.kind = "ws" THEN [q EXCEPT !.pc = "done"]
    ELSE [q EXCEPT !.pc = "send"]

\* A make_call that runs the callbacks only when no exception leaves it.
Finally_on_success(q) ==
    IF q.callbacks # <<>> /\ q.exc = "None"
    THEN [q EXCEPT !.pc = "finally"] ELSE LeaveMakeCall(q)

\* Endpoint.make_call's "finally: if callbacks: for cb in callbacks: await cb()"
Finally(q) ==
    IF q.callbacks # <<>> THEN [q EXCEPT !.pc = "finally"] ELSE LeaveMakeCall(q)

\* An except clause that answers every exception with a problem response.
Except_catch_all(q, e) ==
    IF ep.kind = "ws"
    THEN IF IsException(e)
         THEN [q EXCEPT !.exc = e, !.pc = "ws_close"]
         ELSE LeaveMakeCall([q EXCEPT !.exc = e])
    ELSE IF IsException(e)
         THEN Finally([q EXCEPT !.ret = "ProblemResponse"])
         ELSE Finally([q EXCEPT !.exc = e])

\* A make_call whose except clause re-raises without closing the WebSocket.
Except_no_close(q, e) ==
    IF ep.kind = "ws"
    THEN LeaveMakeCall([q EXCEPT !.exc = e])
    ELSE IF IsException(e) /\ get_solver(e)
         THEN Finally([q EXCEPT !.ret = "ProblemResponse"])
         ELSE Finally([q EXCEPT !.exc = e])

\* Exception e is raised inside the try block of make_call.
Except(q, e) ==
    IF ep.kind = "ws"
    THEN IF IsException(e)
         THEN [q EXCEPT !.exc = e, !.pc = "ws_close"]
         ELSE LeaveMakeCall([q EXCEPT !.exc = e])
    ELSE IF IsException(e) /\ get_solver(e)
         THEN Finally([q EXCEPT !.ret = "ProblemResponse"])
         ELSE Finally([q EXCEPT !.exc = e])

\* validate_request / validate_websocket has returned p: the handler is
\* called with its params.
Invoke(q, p) ==
    [q EXCEPT !.parsed = p,
              !.callbacks = IF ep.kind = "ws" THEN <<>> ELSE p.callbacks,
              !.args = p.params,
              !.pc = "handler",
              !.thread = RunsOn(ep),
              !.log = Append(@, "handler")]

\* The end of validate_request (which strips) and validate_websocket.
Return(q, p) ==
    IF ep.kind = "ws" THEN Invoke(q, p)
    ELSE Invoke(q, [p EXCEPT !.params = strip_transitive(injector, @)])

\* "body.close", the bound method of the form parsed for request r.
body_close(r) == [cb |-> "body.close", of |-> r]

\* AfterBody with the dependencies resolved before the plugin loop has run.
AfterBody_deps_first(q, p, r) ==
    IF p.errors # <<>>
    THEN Except([q EXCEPT !.parsed = p], "InvalidRequestErrors")
    ELSE IF injector.deps = <<>>
    THEN Return(q, plugin_loop(injector.state_params, 1, connType, r, q.resolver, p))
    ELSE [q EXCEPT !.parsed = p, !.pc = "deps", !.depi = 1]

\* AfterBody without the "if errors: raise" check.
AfterBody_unchecked(q, p, r) ==
    LET p1 == plugin_loop(injector.state_params, 1, connType, r, q.resolver, p)
    IN IF injector.deps = <<>> THEN Return(q, p1)
       ELSE [q EXCEPT !.parsed = p1, !.pc = "deps", !.depi = 1]

\* After the body step: the errors check, the plugin loop, then the
\* dependencies.
AfterBody(q, p, r) ==
    IF p.errors # <<>>
    THEN Except([q EXCEPT !.parsed = p], "InvalidRequestErrors")
    ELSE LET p1 == plugin_loop(injector.state_params, 1, connType, r, q.resolver, p)
         IN IF injector.deps = <<>> THEN Return(q, p1)
            ELSE [q EXCEPT !.parsed = p1, !.pc = "deps", !.depi = 1]

\* The objects deepcopy created for request r.
Alloc(st, params, r) ==
    LET new == {CopyId(r, n) : n \in {m \in DOMAIN params : params[m] = Ref(CopyId(r, m))}}
    IN [id \in DOMAIN st \cup new |->
          IF id \in DOMAIN st THEN st[id] ELSE st[DefaultId(id.of)]]

\* A handler that appends to every mutable object it was given.
Mutate(st, params, r) ==
    LET got == {params[n].id : n \in {m \in DOMAIN params : params[m].t = "ref"}}
    IN [id \in DOMAIN st |-> IF id \in got THEN Append(st[id], r) ELSE st[id]]

\* ------------------------------------------------------------------ actions
\* Endpoint.__call__ / WebSocketEndpoint.__call__ begins for request r: a
\* scoped endpoint enters a new scope of the graph, the others use the graph.
Call(r) ==
    /\ req[r].pc = "idle"
    /\ \A o \in Reqs : o < r => req[o].pc # "idle"
    /\ \E c \in ConnsOf(ep) :
         LET q0 == [req[r] EXCEPT !.conn = c]
             q1 == IF ep.scoped
                   THEN [q0 EXCEPT !.resolver = nscopes + 1,
                                   !.log = Append(@, "enter_scope")]
                   ELSE q0
             q2 == IF ep.kind = "http" /\ ~ep.scoped /\ ep.static
                   THEN [q1 EXCEPT !.pc = "handler", !.args = EmptyMap,
                                   !.thread = RunsOn(ep),
                                   !.log = Append(@, "handler")]
                   ELSE [q1 EXCEPT !.pc = "validate"]
         IN req' = [req EXCEPT ![r] = q2]
    /\ IF ep.scoped
       THEN scopes' = scopes \cup {nscopes + 1} /\ nscopes' = nscopes + 1
       ELSE UNCHANGED <<scopes, nscopes>>
    /\ UNCHANGED <<ep, injector, store, rvars, fvars, ovars>>

\* The synchronous start of validate_request / validate_websocket:
\* _validate_conn, then (HTTP, with a body parameter) the wait for the body.
Validate(r) ==
    /\ req[r].pc = "validate"
    /\ LET q == req[r]
           p == validate_conn(injector, q.conn, r)
       IN /\ req' = [req EXCEPT ![r] =
                 IF p.exc # "None" THEN Except([q EXCEPT !.parsed = p], p.exc)
                 ELSE IF ep.kind = "http" /\ injector.body_param # <<>>
                 THEN [q EXCEPT !.parsed = p, !.pc = "body"]
                 ELSE AfterBody(q, p, r)]
          /\ store' = Alloc(store, p.params, r)
    /\ UNCHANGED <<ep, injector, scopes, nscopes, rvars, fvars, ovars>>

\* req.form() / req.body() has answered: the body parameter is extracted,
\* then validate_request goes on to its first dependency.
Body(r) ==
    /\ req[r].pc = "body"
    /\ LET q == req[r]
           p == q.parsed
           name == injector.body_param[1]
           param == injector.body_param[2]
           failed == injector.form_meta /\ q.conn.body = "mpexc"
           body == IF failed THEN "" ELSE q.conn.body
           p1 == IF ~injector.form_meta THEN p
                 ELSE IF failed
                 THEN [p EXCEPT !.errors = Append(@, Problem("InvalidFormError", "body", name))]
                 ELSE [p EXCEPT !.callbacks = Append(@, body_close(r))]
           p2 == Collect(p1, "body", name, body_extract(param, body))
       IN req' = [req EXCEPT ![r] = AfterBody(q, p2, r)]
    /\ UNCHANGED <<ep, injector, store, scopes, nscopes, rvars, fvars, ovars>>

\* "params[name] = await resolver.aresolve(dep.dependent, **params)" for the
\* next dependency: it is constructed, or its construction raises.
ResolveDep(r) ==
    /\ req[r].pc = "deps"
    /\ LET q == req[r]
           p == q.parsed
           name == injector.deps[q.depi][1]
           p1 == [p EXCEPT !.params = Put(@, name, DepV(name, DOMAIN p.params)),
                           !.order = Append(@, <<"dep", name>>)]
       IN \/ req' = [req EXCEPT ![r] =
                 IF q.depi = Len(injector.deps) THEN Return(q, p1)
                 ELSE [q EXCEPT !.parsed = p1, !.depi = @ + 1]]
          \/ req' = [req EXCEPT ![r] = Except(q, "ResolveError")]
    /\ UNCHANGED <<ep, injector, store, scopes, nscopes, rvars, fvars, ovars>>

\* The handler finishes: it returns (having appended to the mutable
\* arguments it was given) or raises.
Handler(r) ==
    /\ req[r].pc = "handler"
    /\ LET q == req[r]
       IN \/ /\ req' = [req EXCEPT ![r] = Finally([q EXCEPT !.ret = "raw"])]
             /\ store' = Mutate(store, q.args, r)
          \/ /\ \E e \in {"HTTPException", "DomainError"} :
                   req' = [req EXCEPT ![r] = Except([q EXCEPT !.raised = e], e)]
             /\ store' = store
    /\ UNCHANGED <<ep, injector, scopes, nscopes, rvars, fvars, ovars>>

\* The request's task is cancelled while it waits for the body, for a
\* dependency or for the handler.
Cancel(r) ==
    /\ req[r].pc \in {"body", "deps", "handler"}
    /\ req' = [req EXCEPT ![r] = Except(req[r], "CancelledError")]
    /\ UNCHANGED <<ep, injector, store, scopes, nscopes, rvars, fvars, ovars>>

\* One "await cb()" of make_call's finally block.
RunCallback(r) ==
    /\ req[r].pc = "finally"
    /\ LET q == req[r]
           q1 == [q EXCEPT !.ran = Append(@, q.callbacks[Len(q.ran) + 1]),
                           !.log = Append(@, "callback")]
       IN req' = [req EXCEPT ![r] =
              IF Len(q1.ran) = Len(q.callbacks) THEN LeaveMakeCall(q1) ELSE q1]
    /\ UNCHANGED <<ep, injector, store, scopes, nscopes, rvars, fvars, ovars>>

\* WebSocketEndpoint.make_call: "await ws.close(reason=str(exc)); raise"
WsClose(r) ==
    /\ req[r].pc = "ws_close"
    /\ req' = [req EXCEPT ![r] =
                  LeaveMakeCall([req[r] EXCEPT !.log = Append(@, "ws_close")])]
    /\ UNCHANGED <<ep, injector, store, scopes, nscopes, rvars, fvars, ovars>>

\* The end of "async with self._graph.ascope() as resolver".
ExitScope(r) ==
    /\ req[r].pc = "exit"
    /\ scopes' = scopes \ {req[r].resolver}
    /\ req' = [req EXCEPT ![r].log = Append(@, "exit_scope"),
                          ![r].pc = IF req[r].exc # "None" \/ ep.kind = "ws"
                                    THEN "done" ELSE "send"]
    /\ UNCHANGED <<ep, injector, store, nscopes, rvars, fvars, ovars>>

\* "await response(scope, receive, send)"
Send(r) ==
    /\ req[r].pc = "send"
    /\ req' = [req EXCEPT ![r].log = Append(@, "send"), ![r].pc = "done"]
    /\ UNCHANGED <<ep, injector, store, scopes, nscopes, rvars, fvars, ovars>>

Next ==
    \E r \in Reqs :
        \/ Call(r)
        \/ Validate(r)
        \/ Body(r)
        \/ ResolveDep(r)
        \/ Handler(r)
        \/ Cancel(r)
        \/ RunCallback(r)
        \/ WsClose(r)
        \/ ExitScope(r)
        \/ Send(r)

Spec == Init /\ [][Next]_vars

\* ------------------------------------------------------------------ route actions
\* Route.add_endpoint(method, func=func, **props)
add_endpoint(method, func, plugins) ==
    /\ Len(eps) < MaxEndpoints
    /\ eps' = Append(eps, Endpoint(method, func, plugins))
    /\ rt_endpoints' =
          IF EndpointOf(rt_endpoints, method) = 0
          THEN Append(rt_endpoints, <<method, Len(eps) + 1>>)
          ELSE [i \in DOMAIN rt_endpoints |->
                  IF rt_endpoints[i][1] = method
                  THEN <<method, Len(eps) + 1>> ELSE rt_endpoints[i]]
    /\ UNCHANGED <<rt_call_stacks, rt_is_setup, sigs, heap, observed, pvars, fvars, ovars>>

\* Route._setup()
Route__setup ==
    /\ LET st == Route_setup(RouteState, 1)
       IN /\ eps' = st.eps
          /\ sigs' = st.sigs
          /\ heap' = st.heap
          /\ rt_call_stacks' = st.call_stacks
    /\ rt_is_setup' = TRUE
    /\ UNCHANGED <<rt_endpoints, observed, pvars, fvars, ovars>>

\* Route.get_endpoint(method): sets the route up when it is not, and answers
\* the endpoint registered for the method; the caller reads its signature.
get_endpoint(method) ==
    /\ EndpointOf(rt_endpoints, method) # 0
    /\ LET st == IF rt_is_setup THEN RouteState ELSE Route_setup(RouteState, 1)
           e == EndpointOf(rt_endpoints, method)
       IN /\ eps' = st.eps
          /\ sigs' = st.sigs
          /\ heap' = st.heap
          /\ rt_call_stacks' = st.call_stacks
          /\ observed' = IF st.eps[e].is_setup
                         THEN observed \cup {Observation(e, st)} ELSE observed
    /\ rt_is_setup' = TRUE
    /\ UNCHANGED <<rt_endpoints, pvars, fvars, ovars>>

\* The module's answer to a method without a call stack.
METHOD_NOT_ALLOWED_RESP == 0

\* "self._call_stacks.get(scope["method"]) or METHOD_NOT_ALLOWED_RESP"
Route_dispatch(call_stacks, method) ==
    IF method \in DOMAIN call_stacks THEN call_stacks[method]
    ELSE METHOD_NOT_ALLOWED_RESP

\* Route.__call__ for a request with the method: the endpoint in the call
\* stack serves it with its signature, or the request is answered with 405.
Route_call(method) ==
    /\ LET endpoint == Route_dispatch(rt_call_stacks, method)
       IN observed' = IF endpoint = METHOD_NOT_ALLOWED_RESP THEN observed
                      ELSE observed \cup {Observation(endpoint, RouteState)}
    /\ UNCHANGED <<rt_endpoints, rt_call_stacks, rt_is_setup, eps, sigs, heap, pvars, fvars, ovars>>

NextRoute ==
    \/ \E m \in Methods, f \in Funcs, ps \in PluginLists : add_endpoint(m, f, ps)
    \/ Route__setup
    \/ \E m \in Methods : get_endpoint(m)
    \/ \E m \in Methods : Route_call(m)

\* No request, an empty route and no handler to parse.
InitIdle ==
    /\ ep = Endpoint_setup(SigStatic, FALSE)
    /\ injector = Injector(ep.sig)
    /\ store = InitStore
    /\ scopes = {}
    /\ nscopes = 0
    /\ req = [r \in Reqs |-> Idle]
    /\ InitRoute
    /\ decl = NoDecl
    /\ parsing = ParseFrame("idle")

\* The route on its own: the request pipeline stays as constructed.
InitRouteOnly == InitIdle /\ InitOther

SpecRoute == InitRouteOnly /\ [][NextRoute]_vars

\* ------------------------------------------------------------------ method helpers
\* The registration helpers of Route, by name.
Helpers ==
    {"get", "put", "post", "delete", "patch", "head", "options", "trace", "connect"}

\* The method a helper passes to add_endpoint.
upper(name) ==
    CASE name = "get" -> "GET"
      [] name = "put" -> "PUT"
      [] name = "post" -> "POST"
      [] name = "delete" -> "DELETE"
      [] name = "patch" -> "PATCH"
      [] name = "head" -> "HEAD"
      [] name = "options" -> "OPTIONS"
      [] name = "trace" -> "TRACE"
      [] name = "connect" -> "CONNECT"

\* "if func is None: return partial(self.<helper>, **epconfig)": the helper
\* the partial of the named helper calls when it is applied to a function.
partial_target(name) ==
    IF name \in {"trace", "connect"} THEN "options" ELSE name

\* route.<name>(func, **props) when direct, route.<name>(**props)(func)
\* when not: the helper, or the helper its partial calls, registers func
\* with add_endpoint.
RouteHelper(name, direct, func, plugins) ==
    IF direct THEN add_endpoint(upper(name), func, plugins)
    ELSE add_endpoint(upper(partial_target(name)), func, plugins)

NextHelpers ==
    \E name \in Helpers, direct \in BOOLEAN, f \in Funcs, ps \in PluginLists :
        RouteHelper(name, direct, f, ps)

SpecHelpers == InitRouteOnly /\ [][NextHelpers]_vars

\* ------------------------------------------------------------------ parsing a handler
\* Number of parameters a declared handler has at most.
MaxParams == 2

\* Number of members a union return annotation has at most.
MaxUnion == 2

\* Number of wrappers (Annotated, TypeAliasType) around a parameter's type
\* at most.
MaxDepth == 3

ParamNames == <<"a", "b", "c", "d">>

\* Parameter annotations: a scalar, a payload type, either of them marked
\* as body or as header, and a marked payload behind a type alias.
ParamAnnts ==
    { Cls("int"), Cls("Payload"),
      Annotated(Cls("Payload"), <<Meta("Param", "body")>>),
      Annotated(Cls("int"), <<Meta("Param", "header")>>),
      Annotated(TypeAliasType(Annotated(Cls("Payload"), <<Meta("meta", "doc")>>)),
                <<Meta("Param", "body")>>) }

ParamDecls(n) ==
    { [i \in 1..n |-> <<ParamNames[i], ps[i][1], ps[i][2]>>] :
        ps \in [1..n -> ParamAnnts \X {MISSING, IntV(0)}] }

\* Members of a return annotation: a type, bare or with a status marker.
ReturnMembers ==
    {Cls("str"), Cls("Literal[None]")}
      \cup { Annotated(t, <<Meta("status", c)>>) :
                t \in {Cls("str"), Cls("Literal[None]")}, c \in {200, 201, 204} }

\* Return annotations: none, one member, a member with a status nested in
\* another Annotated, and the unions of distinct members.
ReturnAnnts ==
    {Parameter_empty} \cup ReturnMembers
      \cup {Annotated(Annotated(Cls("str"), <<Meta("status", 204)>>), <<Meta("meta", "hello")>>)}
      \cup UNION { { Union(us) : us \in { f \in [1..n -> ReturnMembers] :
                                            \A i, j \in 1..n : i # j => f[i] # f[j] } } :
                   n \in 2..MaxUnion }

\* Type expressions: a class behind up to d wrappers.
RECURSIVE TypeExprs(_)
TypeExprs(d) ==
    IF d = 0 THEN {Cls("int")}
    ELSE LET inner == TypeExprs(d - 1)
         IN inner
              \cup { Annotated(t, <<Meta("meta", m)>>) :
                        t \in inner, m \in {"m1", "m2", "m3"} }
              \cup { TypeAliasType(t) : t \in inner }

\* EndpointParser.parse, one parameter of the handler at a time.
ParseParam ==
    /\ parsing.pc = "params"
    /\ parsing.i <= Len(decl.params)
    /\ LET p == decl.params[parsing.i]
           res == parse_param(p[1], p[2], p[3], decl)
           seen == [parsing EXCEPT !.resolved = Append(@, get_origin_pro(p[2], <<>>))]
       IN parsing' = IF res.ok
                     THEN [seen EXCEPT !.i = @ + 1, !.results = Append(@, res.val)]
                     ELSE [seen EXCEPT !.pc = "failed", !.exc = res.exc]
    /\ UNCHANGED <<decl, pvars, rvars, ovars>>

\* The rest of EndpointParser.parse: the EndpointParams of the results, its
\* get_body, the return annotation through parse_returns, and the
\* EndpointSignature made of them.
ParseSignature ==
    /\ parsing.pc = "params"
    /\ parsing.i > Len(decl.params)
    /\ LET Of(source) ==
               LET Is(x) == x.source = source
                   ps == SelectSeq(parsing.results, Is)
               IN [i \in DOMAIN ps |-> <<ps[i].name, ps[i]>>]
           body == get_body(Of("body"))
           rets == parse_returns_map(decl.ret)
       IN parsing' =
            IF ~body.ok THEN [parsing EXCEPT !.pc = "failed", !.exc = body.exc]
            ELSE IF ~rets.ok THEN [parsing EXCEPT !.pc = "failed", !.exc = rets.exc]
            ELSE [parsing EXCEPT
                     !.pc = "parsed",
                     !.sig = <<EndpointSignature(Of("header"), Of("path"), Of("query"),
                                                 body.val, FALSE, <<>>,
                                                 Of("dependency"), {}, FALSE)>>,
                     !.return_params = rets.val]
    /\ UNCHANGED <<decl, pvars, rvars, ovars>>

\* Endpoint._setup after the parse: the plugins are chained up, with the
\* signature's default return (its first return) in their hands.
SetupPlugins ==
    /\ parsing.pc = "parsed"
    /\ LET st == [sigs |-> << [func |-> "f", default_return |-> 1] >>,
                  heap |-> << parsing.return_params[1][2] >>,
                  func |-> parsing.func, applied |-> <<>>]
           st1 == chainup_plugins(decl.plugins, 1, {}, 1, st)
       IN parsing' = [parsing EXCEPT !.pc = "setup",
                                     !.return_params[1][2] = st1.heap[1],
                                     !.func = st1.func,
                                     !.applied = st1.applied]
    /\ UNCHANGED <<decl, pvars, rvars, ovars>>

NextParse ==
    \/ ParseParam
    \/ ParseSignature
    \/ SetupPlugins

\* The request pipeline and the route stay as constructed.
InitNoRequests ==
    /\ ep = Endpoint_setup(SigStatic, FALSE)
    /\ injector = Injector(ep.sig)
    /\ store = InitStore
    /\ scopes = {}
    /\ nscopes = 0
    /\ req = [r \in Reqs |-> Idle]
    /\ InitRoute
    /\ InitOther
    /\ parsing = ParseFrame("params")

\* Handlers of up to MaxParams parameters, on a route with or without the
\* path key "a" and a graph with or without Payload registered.
InitParams ==
    /\ InitNoRequests
    /\ decl \in { Declaration(ps, keys, reg, Parameter_empty, <<>>) :
                    ps \in UNION { ParamDecls(n) : n \in 1..MaxParams },
                    keys \in {{}, {"a"}},
                    reg \in {{}, {"Payload"}} }

SpecParams == InitParams /\ [][NextParse]_vars

\* Handlers of one query parameter with every return annotation and plugin
\* list.
InitReturns ==
    /\ InitNoRequests
    /\ decl \in { Declaration(<< <<"a", Cls("int"), MISSING>> >>, {}, {}, ret, ps) :
                    ret \in ReturnAnnts, ps \in PluginLists }

SpecReturns == InitReturns /\ [][NextParse]_vars

\* The plugin objects a route's and an endpoint's props may list.
Plugins == {"p1", "p2", "jwt_encode"}

\* Number of plugins a props object lists at most.
MaxPlugins == 3

PropsPlugins == UNION { [1..n -> Plugins] : n \in 0..MaxPlugins }

\* dict.fromkeys(new_val): the first occurrence of each item, in order.
RECURSIVE fromkeys(_)
fromkeys(xs) ==
    IF xs = <<>> THEN <<>>
    ELSE LET rest == fromkeys(SubSeq(xs, 1, Len(xs) - 1))
             x == xs[Len(xs)]
         IN IF \E k \in DOMAIN rest : rest[k] = x THEN rest ELSE Append(rest, x)

\* The plugins of "self._props.merge(new_props, deduplicate=True)".
merge(self_plugins, new_plugins) == fromkeys(self_plugins \o new_plugins)

\* Handlers of one query parameter on a route with plugins, registered
\* without props (the route's props are the endpoint's) or with plugins of
\* their own (the two are merged).
InitPlugins ==
    /\ InitNoRequests
    /\ decl \in { Declaration(<< <<"a", Cls("int"), MISSING>> >>, {}, {},
                               Parameter_empty, ps) :
                    ps \in PropsPlugins
                          \cup { merge(r, e) : r \in PropsPlugins, e \in PropsPlugins } }

SpecPlugins == InitPlugins /\ [][NextParse]_vars

\* Handlers of one parameter whose type is behind up to MaxDepth wrappers.
InitTyping ==
    /\ InitNoRequests
    /\ decl \in { Declaration(<< <<"a", t, MISSING>> >>, {}, {}, Parameter_empty, <<>>) :
                    t \in TypeExprs(MaxDepth) }

SpecTyping == InitTyping /\ [][NextParse]_vars

\* ------------------------------------------------------------------ middlewares
\* Number of Route objects of the middleware tree at most.
MaxRoutes == 4

\* Number of factories a list holds at most.
MaxFactories == 2

\* Number of list objects at most.
MaxLists == 4

\* Number of factories created at most.
MaxCreated == 2

\* A factory is the number of its creation; the next one a caller creates.
NewFactory(ls) ==
    1 + Cardinality(UNION { {ls[l][k] : k \in DOMAIN ls[l]} : l \in DOMAIN ls })

\* The lists a caller passes as middlewares=... or to add_middleware: empty,
\* or holding one or two new factories.
CallerLists(ls) ==
    { <<>>, <<NewFactory(ls)>>, <<NewFactory(ls), NewFactory(ls) + 1>> }

\* "None" as the middlewares argument.
NoList == 0

\* ASGIBase.__init__: "self.middle_factories = middlewares or []": the list
\* passed when it is not empty, a new empty list otherwise.
ASGIBase(ls, middlewares) ==
    IF middlewares # NoList /\ ls[middlewares] # <<>>
    THEN [lists |-> ls, middle_factories |-> middlewares]
    ELSE [lists |-> Append(ls, <<>>), middle_factories |-> Len(ls) + 1]

\* An ASGI app: the endpoint of a route, or what a factory made of an app.
EndpointApp(i) == [app |-> "endpoint", of |-> i]
factory(f, app) == [app |-> "middleware", by |-> f, next |-> app]
NoApp == [app |-> "None"]

\* The endpoint, where a request's path through the factories' apps ends.
TheEndpoint == 0

\* What a request passed to the app goes through, in order.
RECURSIVE traverse(_)
traverse(app) ==
    IF app.app = "endpoint" THEN <<TheEndpoint>>
    ELSE <<app.by>> \o traverse(app.next)

\* A chain built with the first factory applied first.
RECURSIVE chainup_middlewares_forward(_, _)
chainup_middlewares_forward(middle_factories, tail) ==
    IF middle_factories = <<>> THEN tail
    ELSE chainup_middlewares_forward(Tail(middle_factories),
                                     factory(Head(middle_factories), tail))

\* ASGIBase.chainup_middlewares: "for factory in reversed(self.middle_factories):
\* current = factory(current)"
RECURSIVE chainup_middlewares(_, _)
chainup_middlewares(middle_factories, tail) ==
    IF middle_factories = <<>> THEN tail
    ELSE LET n == Len(middle_factories)
         IN chainup_middlewares(SubSeq(middle_factories, 1, n - 1),
                                factory(middle_factories[n], tail))

\* RouteBase.__init__ with the middlewares given; origin tells how the route
\* came to be ("Route", "sub" or "include") and from which route.  given is
\* the list object passed, at_setup the factories its set-up read.
RouteBase(st, middlewares, origin, from) ==
    LET b == ASGIBase(st.lists, middlewares)
    IN [lists |-> b.lists,
        routes |-> Append(st.routes,
                     [middle_factories |-> b.middle_factories,
                      given |-> middlewares, origin |-> origin, from |-> from,
                      subroutes |-> <<>>,
                      call_stack |-> NoApp, at_setup |-> <<>>])]

\* RouteBase.sub(path) of route i, for a path it has no sub-route for.
sub(st, i) ==
    LET st1 == RouteBase(st, st.routes[i].middle_factories, "sub", i)
    IN [st1 EXCEPT !.routes[i].subroutes = Append(@, Len(st1.routes))]

\* Route.include_subroutes(sub) of route i for the route j, and its loop
\* over the sub-routes of j from the k-th on.
RECURSIVE include_subroutes(_, _, _)
RECURSIVE include_sub_subs(_, _, _, _)
include_subroutes(st, i, j) ==
    LET st1 == RouteBase(st, st.routes[j].middle_factories, "include", j)
        new_sub == Len(st1.routes)
        st2 == include_sub_subs(st1, new_sub, st.routes[j].subroutes, 1)
    IN [st2 EXCEPT !.routes[i].subroutes = Append(@, new_sub)]

include_sub_subs(st, new_sub, sub_subs, k) ==
    IF k > Len(sub_subs) THEN st
    ELSE include_sub_subs(include_subroutes(st, new_sub, sub_subs[k]),
                          new_sub, sub_subs, k + 1)

\* ASGIBase.add_middleware with one factory: appended to the list in place.
add_middleware(st, i, f) ==
    [st EXCEPT !.lists[st.routes[i].middle_factories] = Append(@, f)]

\* ASGIBase.add_middleware with a sequence: a new list, the sequence first.
add_middlewares(st, i, fs) ==
    [st EXCEPT !.lists = Append(@, fs \o st.lists[st.routes[i].middle_factories]),
               !.routes[i].middle_factories = Len(st.lists) + 1]

Tree == [lists |-> lists, routes |-> routes]

Fits(st) ==
    /\ Len(st.routes) <= MaxRoutes
    /\ Len(st.lists) <= MaxLists
    /\ \A l \in DOMAIN st.lists : Len(st.lists[l]) <= MaxFactories
    /\ NewFactory(st.lists) - 1 <= MaxCreated

\* Route(path, middlewares=...) called with a list or with None.
NewRoute ==
    \E c \in CallerLists(lists), passed \in BOOLEAN :
        LET st0 == IF passed THEN [Tree EXCEPT !.lists = Append(@, c)] ELSE Tree
            st == RouteBase(st0, IF passed THEN Len(st0.lists) ELSE NoList, "Route", 0)
        IN /\ Fits(st)
           /\ lists' = st.lists
           /\ routes' = st.routes
           /\ UNCHANGED <<trace, pvars, rvars, fvars, bvars, svars>>

Sub(i) ==
    /\ Fits(sub(Tree, i))
    /\ lists' = sub(Tree, i).lists
    /\ routes' = sub(Tree, i).routes
    /\ UNCHANGED <<trace, pvars, rvars, fvars, bvars, svars>>

IncludeSubroutes(i, j) ==
    /\ i # j
    /\ Fits(include_subroutes(Tree, i, j))
    /\ lists' = include_subroutes(Tree, i, j).lists
    /\ routes' = include_subroutes(Tree, i, j).routes
    /\ UNCHANGED <<trace, pvars, rvars, fvars, bvars, svars>>

AddMiddleware(i) ==
    /\ Fits(add_middleware(Tree, i, NewFactory(lists)))
    /\ lists' = add_middleware(Tree, i, NewFactory(lists)).lists
    /\ UNCHANGED <<routes, trace, pvars, rvars, fvars, bvars, svars>>

AddMiddlewares(i) ==
    /\ \E fs \in CallerLists(lists) :
          /\ Fits(add_middlewares(Tree, i, fs))
          /\ lists' = add_middlewares(Tree, i, fs).lists
          /\ routes' = add_middlewares(Tree, i, fs).routes
    /\ UNCHANGED <<trace, pvars, rvars, fvars, bvars, svars>>

\* Route._setup of route i: the call stack of its endpoint is built.
SetupRoute(i) ==
    /\ routes[i].call_stack = NoApp
    /\ routes' = [routes EXCEPT
          ![i].call_stack = chainup_middlewares(lists[routes[i].middle_factories],
                                                EndpointApp(i)),
          ![i].at_setup = lists[routes[i].middle_factories]]
    /\ UNCHANGED <<lists, trace, pvars, rvars, fvars, bvars, svars>>

\* Route.__call__ of the set-up route i: "await endpoint(scope, receive, send)"
Dispatch(i) ==
    /\ routes[i].call_stack # NoApp
    /\ trace' = <<i, traverse(routes[i].call_stack)>>
    /\ UNCHANGED <<lists, routes, pvars, rvars, fvars, bvars, svars>>

NextMiddleware ==
    \/ NewRoute
    \/ \E i \in DOMAIN routes : Sub(i)
    \/ \E i \in DOMAIN routes, j \in DOMAIN routes : IncludeSubroutes(i, j)
    \/ \E i \in DOMAIN routes : AddMiddleware(i)
    \/ \E i \in DOMAIN routes : AddMiddlewares(i)

SpecMiddleware == InitRouteOnly /\ [][NextMiddleware]_vars

\* One route constructed by its caller, set up and dispatched to.
NextChain ==
    \/ routes = <<>> /\ NewRoute
    \/ \E i \in DOMAIN routes : AddMiddleware(i)
    \/ \E i \in DOMAIN routes : AddMiddlewares(i)
    \/ \E i \in DOMAIN routes : SetupRoute(i)
    \/ \E i \in DOMAIN routes : Dispatch(i)

SpecChain == InitRouteOnly /\ [][NextChain]_vars

\* ------------------------------------------------------------------ message bus
\* Number of commands sent through the bus, all of them able to be in flight
\* at once.
MaxSends == 3

\* The command types with a registered handler.
MsgTypes == {"A", "B"}

\* What a guard's _next_guard, or a send's handler, refers to: nothing, a
\* guard object, or the handler resolved for a command type.
NoGuard == [k |-> "None"]
GuardRef(g) == [k |-> "guard", id |-> g]
HandlerRef(msg_type) == [k |-> "handler", of |-> msg_type]

\* HandlerManager after include_guards: the guard instances registered for
\* every command (_global_guards) and per command type (_guard_mapping), and
\* the _next_guard of each guard object.
HandlerManager(global_guards, guard_mapping) ==
    [global_guards |-> global_guards, guard_mapping |-> guard_mapping,
     next_guard |-> [g \in 1..3 |-> NoGuard]]

\* The registrations under test: no guard, one global guard, one guard per
\* command type, and both.
Managers ==
    { HandlerManager(gl, mp) :
        gl \in {<<>>, <<1>>},
        mp \in { [A |-> <<>>, B |-> <<>>], [A |-> <<2>>, B |-> <<3>>] } }

\* BaseGuard.chain_next on guard g.
chain_next(mgr, g, next_guard) ==
    [mgr EXCEPT !.next_guard[g] = next_guard]

\* The loop of _chain_guards: "for nxt in rest: ptr.chain_next(nxt); ptr = nxt"
RECURSIVE chain_rest(_, _, _)
chain_rest(mgr, chain, k) ==
    IF k >= Len(chain) THEN mgr
    ELSE chain_rest(chain_next(mgr, chain[k], GuardRef(chain[k + 1])),
                    chain, k + 1)

\* HandlerManager._chain_guards: the guard instances for the command type
\* are linked to each other and the last one to the handler.
chain_guards(mgr, msg_type, handler) ==
    LET command_guards == mgr.global_guards \o mgr.guard_mapping[msg_type]
    IN IF command_guards = <<>> THEN [mgr |-> mgr, head |-> handler]
       ELSE LET linked == chain_rest(mgr, command_guards, 1)
                ptr == command_guards[Len(command_guards)]
            IN [mgr |-> chain_next(linked, ptr, handler),
                head |-> GuardRef(command_guards[1])]

\* HandlerManager.resolve_handler for a command type.
resolve_handler(mgr, msg_type) ==
    chain_guards(mgr, msg_type, HandlerRef(msg_type))

\* The frame of one BusTerminal.send: the command's type, the callable the
\* command is at, and the handler that received it.
IdleSend == [pc |-> "idle", type |-> "None", at |-> NoGuard, handled_by |-> "None"]

\* Calling what ref refers to with the command of frame f: a guard awaits
\* its pre_handle, a handler receives the command.
CallRef(f, ref) ==
    IF ref.k = "handler"
    THEN [f EXCEPT !.pc = "done", !.at = ref, !.handled_by = ref.of]
    ELSE IF ref.k = "guard"
    THEN [f EXCEPT !.pc = "pre_handle", !.at = ref]
    ELSE [f EXCEPT !.pc = "done", !.at = ref, !.handled_by = "DunglingGuardError"]

\* BusTerminal.send(msg) for a command of the type: the handler is resolved
\* and guarded, and the sender calls it.
BusSend(s, msg_type) ==
    /\ sends[s].pc = "idle"
    /\ \A o \in DOMAIN sends : o < s => sends[o].pc # "idle"
    /\ LET res == resolve_handler(guards, msg_type)
       IN /\ guards' = res.mgr
          /\ sends' = [sends EXCEPT ![s] = CallRef([@ EXCEPT !.type = msg_type], res.head)]
    /\ UNCHANGED <<pvars, rvars, fvars, mvars, svars>>

\* Guard.__call__ after "await self.pre_handle(command, context)": the
\* guard calls what its _next_guard now is.
GuardCall(s) ==
    /\ sends[s].pc = "pre_handle"
    /\ sends' = [sends EXCEPT ![s] = CallRef(@, guards.next_guard[sends[s].at.id])]
    /\ UNCHANGED <<guards, pvars, rvars, fvars, mvars, svars>>

NextBus ==
    \E s \in 1..MaxSends :
        \/ \E msg_type \in MsgTypes : BusSend(s, msg_type)
        \/ GuardCall(s)

InitBusOnly ==
    /\ InitIdle
    /\ InitMiddleware
    /\ InitSolvers
    /\ guards \in Managers
    /\ sends = [s \in 1..MaxSends |-> IdleSend]

SpecBus == InitBusOnly /\ [][NextBus]_vars

\* ------------------------------------------------------------------ problem solvers
\* What get_solver is asked about: a status code, or an exception instance
\* of a class (with the __status__ of the class).
StatusKey(code) == [k |-> "int", cls |-> "int", code |-> code]
ExcKey(cls, code) == [k |-> "exc", cls |-> cls, code |-> code]

\* 418 and two exceptions: a CurrentProblem (an HTTPException) and a
\* Teapot, which is no HTTPException and has the status 418.
Lookups ==
    { StatusKey(418), ExcKey("CurrentProblem", 422), ExcKey("Teapot", 418) }

\* type(exc).__mro__
mro(cls) ==
    CASE cls = "CurrentProblem" -> <<"CurrentProblem", "HTTPException", "Exception">>
      [] cls = "Teapot" -> <<"Teapot", "Exception">>
      [] OTHER -> <<cls>>

\* The registry after "_solver(default_error_catch)".
Registry ==
    [exc_handlers |-> [HTTPException |-> "default_error_catch"],
     status_handlers |-> EmptyMap]

\* _solver(handler) for a handler whose exc parameter is annotated with a
\* status code or an exception class.
solver(reg, handler, exc_type) ==
    IF exc_type.k = "int"
    THEN [reg EXCEPT !.status_handlers = Put(@, exc_type.code, handler)]
    ELSE [reg EXCEPT !.exc_handlers = Put(@, exc_type.cls, handler)]

\* dict.get
dict_get(d, key) == IF key \in DOMAIN d THEN d[key] ELSE "None"

\* The loop "for base in type(exc).__mro__: if res := exc_handlers.get(base)"
RECURSIVE mro_loop(_, _, _)
mro_loop(reg, bases, i) ==
    IF i > Len(bases) THEN "None"
    ELSE IF dict_get(reg.exc_handlers, bases[i]) # "None"
    THEN dict_get(reg.exc_handlers, bases[i])
    ELSE mro_loop(reg, bases, i + 1)

\* The body of get_solver.
get_solver_body(reg, exc) ==
    IF exc.k = "int" THEN dict_get(reg.status_handlers, exc.code)
    ELSE IF mro_loop(reg, mro(exc.cls), 1) # "None"
    THEN mro_loop(reg, mro(exc.cls), 1)
    ELSE dict_get(reg.status_handlers, exc.code)

\* @lru_cache: the result remembered for the argument, if any, else the
\* body's, which is remembered.
lru_cache(memo, reg, exc) ==
    IF exc \in DOMAIN memo THEN [memo |-> memo, result |-> memo[exc]]
    ELSE LET res == get_solver_body(reg, exc)
         IN [memo |-> (exc :> res) @@ memo, result |-> res]

\* @problem_solver on a handler for the status code or exception class.
RegisterSolver(handler, exc_type) ==
    /\ handlers' = solver(handlers, handler, exc_type)
    /\ UNCHANGED <<cache, answer, pvars, rvars, fvars, mvars, bvars>>

\* get_solver(exc)
GetSolver(exc) ==
    /\ cache' = lru_cache(cache, handlers, exc).memo
    /\ answer' = <<exc, lru_cache(cache, handlers, exc).result>>
    /\ UNCHANGED <<handlers, pvars, rvars, fvars, mvars, bvars>>

NextSolvers ==
    \/ \E handler \in {"h1", "h2"} :
          \/ RegisterSolver(handler, StatusKey(418))
          \/ RegisterSolver(handler, ExcKey("CurrentProblem", 422))
    \/ \E exc \in Lookups : GetSolver(exc)

InitSolversOnly ==
    /\ InitIdle
    /\ InitMiddleware
    /\ InitBus
    /\ handlers = Registry
    /\ cache = EmptyMap
    /\ answer = <<>>

SpecSolvers == InitSolversOnly /\ [][NextSolvers]_vars

\* ------------------------------------------------------------------ extraction order
Rank(phase) ==
    CASE phase = "header" -> 1
      [] phase = "path" -> 2
      [] phase = "query" -> 3
      [] phase = "body" -> 4
      [] phase = "plugin" -> 5
      [] phase = "dep" -> 6

Names(items) == {items[i][1] : i \in DOMAIN items}

\* The names the signature has a request, body or fillable plugin parameter
\* for: what extraction has put in the mapping once it reaches the
\* dependencies of a request without problems.
BeforeDeps ==
    Names(ep.sig.header_params) \cup Names(ep.sig.path_params)
      \cup Names(ep.sig.query_params)
      \cup (IF ep.sig.body_param = <<>> THEN {} ELSE {ep.sig.body_param[1]})
      \cup {ep.sig.plugins[i][1] : i \in
               {j \in DOMAIN ep.sig.plugins :
                   ep.sig.plugins[j][2] \in {connType, "Resolver"}}}

\* C1: within one request the extraction steps are taken in the order
\* header/cookie, path, query, body, plugin, dependency, and every dependency
\* is resolved with a mapping that already holds the request's header, path,
\* query, body and plugin values.
C1_PhaseOrder ==
    \A r \in Reqs :
        LET o == req[r].parsed.order
            ps == req[r].parsed.params
        IN /\ \A i, j \in DOMAIN o : i < j => Rank(o[i][1]) <= Rank(o[j][1])
           /\ \A j \in DOMAIN o :
                 o[j][1] = "dep" =>
                   /\ o[j][2] \in DOMAIN ps
                   /\ ps[o[j][2]].t = "dep"
                   /\ BeforeDeps \subseteq ps[o[j][2]].using
                   /\ {o[i][2] : i \in 1..(j - 1)} \subseteq ps[o[j][2]].using

\* The upload handler is called with a dependency that was resolved from the
\* query, form and plugin values of its request.
C1_Witness ==
    \E r \in Reqs :
        /\ ep.sig = SigForm
        /\ req[r].pc = "handler"
        /\ "d" \in DOMAIN req[r].args
        /\ req[r].args["d"].using = {"t", "f", "req"}
        /\ req[r].parsed.order =
               << <<"query", "t">>, <<"body", "f">>, <<"plugin", "req">>, <<"dep", "d">> >>


\* ------------------------------------------------------------------ validation problems
\* The request parameters of the endpoint, in extraction order.
RequestParams ==
    LET seq(items) == [i \in DOMAIN items |-> items[i][2]]
    IN seq(ep.sig.header_params) \o seq(ep.sig.path_params)
         \o seq(ep.sig.query_params)
         \o (IF ep.kind = "ws" \/ ep.sig.body_param = <<>> THEN <<>>
             ELSE <<ep.sig.body_param[2]>>)

\* What the connection carries for a parameter: nothing ("absent"), a form
\* that cannot be parsed ("unreadable"), or a raw value.
Absent == [has |-> "absent"]
Unreadable == [has |-> "unreadable"]
Raw(x) == [has |-> "value", raw |-> x]

Carried(param, conn) ==
    IF param.source = "body"
    THEN IF conn.body \in {"", "form_empty"} THEN Absent
         ELSE IF conn.body = "mpexc" THEN Unreadable
         ELSE Raw(conn.body)
    ELSE IF param.source = "path"
    THEN IF param.alias \in DOMAIN conn.path_params
         THEN Raw(conn.path_params[param.alias]) ELSE Absent
    ELSE IF param.source = "query"
    THEN IF param.alias \notin DOMAIN conn.query_params THEN Absent
         ELSE IF param.multivals THEN Raw(conn.query_params[param.alias])
         ELSE Raw(conn.query_params[param.alias][1])
    ELSE IF param.cookie_name # "None"
    THEN IF "cookie" \notin DOMAIN conn.headers THEN Absent
         ELSE LET jar == cookie_parser(conn.headers["cookie"][1])
              IN IF param.cookie_name \in DOMAIN jar
                 THEN Raw(jar[param.cookie_name]) ELSE Absent
    ELSE IF param.alias \notin DOMAIN conn.headers THEN Absent
         ELSE IF param.multivals THEN Raw(conn.headers[param.alias])
         ELSE Raw(conn.headers[param.alias][1])

\* The parameter is invalid on the connection: a required value is absent,
\* or the value carried is one the decoder rejects.
Invalid(param, conn) ==
    LET c == Carried(param, conn)
    IN IF c = Absent THEN ~is_present(param.default)
       ELSE IF c = Unreadable THEN TRUE
       ELSE ~decode(param, c.raw).ok

RECURSIVE InvalidParams(_, _)
InvalidParams(params, conn) ==
    IF params = <<>> THEN <<>>
    ELSE (IF Invalid(Head(params), conn) THEN <<Head(params)>> ELSE <<>>)
           \o InvalidParams(Tail(params), conn)

\* Extraction for the request is over and was not cut short by a
\* cancellation.
ExtractionOver(q) ==
    /\ q.pc \notin {"idle", "validate", "body"}
    /\ ~(q.exc = "CancelledError" /\ q.args = MISSING)

\* C2: a request with invalid parameters gets one InvalidRequestErrors that
\* carries exactly one problem per invalid header, cookie, path, query and
\* body parameter, with its location and name, in extraction order.
C2_AllProblemsCollected ==
    \A r \in Reqs :
        LET q == req[r]
            bad == InvalidParams(RequestParams, q.conn)
            errs == q.parsed.errors
        IN (ExtractionOver(q) /\ ~(ep.kind = "http" /\ ep.static) /\ bad # <<>>) =>
             /\ q.parsed.exc = "None"
             /\ q.args = MISSING
             /\ Len(errs) = Len(bad)
             /\ \A i \in DOMAIN errs :
                   /\ i \in DOMAIN bad
                   /\ errs[i].param \in {bad[i].name, bad[i].alias}
                   /\ errs[i].location = bad[i].source

\* C3: no exception escapes the Injector from an extraction step, and every
\* step taken has left either a value or a validation problem.
C3_ValueOrProblem ==
    \A r \in Reqs :
        LET q == req[r]
            o == q.parsed.order
        IN /\ q.parsed.exc = "None"
           /\ \A i \in DOMAIN o :
                 Rank(o[i][1]) <= 4 =>
                   \/ o[i][2] \in DOMAIN q.parsed.params \cup injector.transitive_params
                   \/ \E k \in DOMAIN q.parsed.errors :
                         q.parsed.errors[k].location = o[i][1]


\* ------------------------------------------------------------------ isolation
\* A value of request r's mapping belongs to r: a mutable object is the
\* stored default or r's copy of it, a plugin value is r's connection or r's
\* resolver.
OwnValue(v, r) ==
    CASE v.t = "ref" -> v.id.own \in {0, r}
      [] v.t = "plugin" -> IF v.what = "Resolver" THEN v.r = req[r].resolver
                           ELSE v.what = connType /\ v.r = r
      [] OTHER -> TRUE

\* The value with the request it belongs to left out.
Anon(v) ==
    CASE v.t = "ref" -> [t |-> "ref", of |-> v.id.of, copied |-> v.id.own # 0]
      [] v.t = "plugin" -> [t |-> "plugin", what |-> v.what]
      [] OTHER -> v

C5_CallbacksAfterHandler ==
    \A r \in Reqs :
        LET q == req[r]
        IN /\ (q.pc = "done" /\ q.args # MISSING) =>
                 q.ran = q.parsed.callbacks
           /\ \A i \in DOMAIN q.log :
                 q.log[i] = "callback" =>
                    \E j \in 1..(i - 1) : q.log[j] = "handler"

\* The handler of an upload raised an exception no solver takes, the form
\* was closed and the call has ended.
C5_Witness ==
    \E r \in Reqs :
        /\ req[r].pc = "done"
        /\ req[r].exc = "DomainError"
        /\ req[r].ran = <<body_close(r)>>

\* C6: a callback that was registered for a request has run by the time the
\* request ends, also when extraction did not complete.
C6_CallbacksAlways ==
    \A r \in Reqs :
        req[r].pc = "done" => req[r].ran = req[r].parsed.callbacks

\* ------------------------------------------------------------------ scopes
Count(log, what) == Cardinality({i \in DOMAIN log : log[i] = what})

\* C7: every request to an endpoint whose signature or props are scoped
\* enters one new scope before extraction and has left it when it ends;
\* requests in flight have different scopes.
C7_ScopePerRequest ==
    (ep.sig.scoped \/ ep.props_scoped) =>
       \A r \in Reqs :
          LET q == req[r]
          IN q.pc # "idle" =>
               /\ q.log # <<>>
               /\ q.log[1] = "enter_scope"
               /\ Count(q.log, "enter_scope") = 1
               /\ Count(q.log, "exit_scope") <= 1
               /\ q.resolver # 0
               /\ \A o \in Reqs : (o # r /\ req[o].pc # "idle") =>
                     req[o].resolver # q.resolver
               /\ q.pc = "done" =>
                     /\ Count(q.log, "exit_scope") = 1
                     /\ q.resolver \notin scopes

\* ------------------------------------------------------------------ handler arguments
\* C8: the mapping the handler is called with holds no transitive parameter.
C8_TransitiveStripped ==
    \A r \in Reqs :
        req[r].args # MISSING =>
           DOMAIN req[r].args \cap ep.sig.transitive_params = {}

\* C9: the default stored on a parameter never changes, and a request that
\* omits the parameter is called with the declared default's contents,
\* whatever the handlers of other requests did to the value they received.
C9_DefaultsNotAliased ==
    /\ \A id \in DOMAIN InitStore : store[id] = InitStore[id]
    /\ \A r \in Reqs :
         LET q == req[r]
         IN (q.pc = "handler" /\ q.args # MISSING) =>
               \A n \in DOMAIN q.args :
                  q.args[n].t = "ref" =>
                     store[q.args[n].id] = InitStore[DefaultId(n)]


\* ------------------------------------------------------------------ signature lifetime
\* C10: an endpoint that is set up was parsed and set up once, its signature
\* is the object its set-up gave it with the contents it then had, and every
\* caller and request has seen that same object with those contents.
C10_SignatureImmutable ==
    /\ \A e \in DOMAIN eps :
         eps[e].is_setup =>
            /\ eps[e].parsed = 1
            /\ eps[e].setups = 1
            /\ eps[e].sig = eps[e].at_setup.sig
            /\ Contents(eps[e].sig, sigs, heap) = eps[e].at_setup.contents
    /\ \A o \in observed :
         /\ o.sig = eps[o.ep].sig
         /\ o.contents = Contents(eps[o.ep].sig, sigs, heap)


\* ------------------------------------------------------------------ handler exceptions
\* C11 as stated: whatever exception the handler raised is the exception
\* that leaves the endpoint call, and no response stands in for it.
C11_PropagatesUnchanged ==
    \A r \in Reqs :
        req[r].raised # "None" =>
           /\ req[r].exc = req[r].raised
           /\ req[r].ret = "None"

\* C11 (amended): a handler exception that no problem solver takes leaves
\* the endpoint call unchanged and nothing is sent; on an HTTP endpoint an
\* HTTPException, which the default solver takes, is answered with the
\* solver's response, and that response is sent.
C11_UnsolvedPropagates ==
    \A r \in Reqs :
        LET q == req[r]
        IN q.raised # "None" =>
             IF ep.kind = "http" /\ q.raised = "HTTPException"
             THEN /\ q.exc = "None"
                  /\ q.ret = "ProblemResponse"
                  /\ q.pc = "done" => Count(q.log, "send") = 1
             ELSE /\ q.exc = q.raised
                  /\ q.ret = "None"
                  /\ Count(q.log, "send") = 0

\* A handler's DomainError has left the endpoint call of a parameterless
\* endpoint, and another request's HTTPException was answered and sent.
C11_Witness ==
    \E r1, r2 \in Reqs :
        /\ ep.sig = SigStatic
        /\ req[r1].pc = "done" /\ req[r1].raised = "DomainError"
        /\ req[r1].exc = "DomainError"
        /\ req[r2].pc = "done" /\ req[r2].raised = "HTTPException"
        /\ req[r2].log = <<"handler", "send">>

\* ------------------------------------------------------------------ parse-time properties
\* The parameters of the handler that the parser classified as body.
Bodies ==
    {i \in DOMAIN parsing.results : parsing.results[i].source = "body"}

\* C12: at most one body parameter exists per endpoint signature: a handler
\* with two or more parameters classified as body ends its parse with
\* NotSupportedError and without a signature, and every signature produced
\* comes from at most one body parameter, which is its body_param.
C12_SingleBody ==
    /\ parsing.sig # <<>> =>
          /\ Cardinality(Bodies) <= 1
          /\ \A i \in Bodies :
                parsing.sig[1].body_param
                   = <<parsing.results[i].name, parsing.results[i]>>
          /\ Bodies = {} => parsing.sig[1].body_param = <<>>
    /\ (Cardinality(Bodies) >= 2 /\ parsing.i > Len(decl.params)
          /\ parsing.pc # "params") =>
          /\ parsing.pc = "failed"
          /\ parsing.exc = "NotSupportedError"
          /\ parsing.sig = <<>>

C12_Witness ==
    /\ Cardinality(Bodies) = 2
    /\ \E i \in Bodies : decl.params[i][2].k = "Annotated"
    /\ \E i \in Bodies : decl.params[i][2] = Cls("Payload")
    /\ parsing.pc = "failed"
    /\ parsing.exc = "NotSupportedError"

\* The declared parameters the parser has dealt with: those before
\* parameter i, and parameter i itself when the parse failed on it.
Dealt ==
    {j \in DOMAIN decl.params :
        j < parsing.i \/ (j = parsing.i /\ parsing.pc = "failed")}

\* C13: a path parameter is always required: a parameter named by the path
\* template and declared with a default ends the parse with
\* NotSupportedError, and no path parameter with a default is ever among the
\* parsed parameters or in a signature.
C13_PathRequired ==
    /\ \A i \in DOMAIN parsing.results :
          parsing.results[i].source = "path"
             => parsing.results[i].default = MISSING
    /\ parsing.sig # <<>> =>
          \A i \in DOMAIN parsing.sig[1].path_params :
             parsing.sig[1].path_params[i][2].default = MISSING
    /\ \A j \in Dealt :
          (decl.params[j][1] \in decl.path_keys /\ decl.params[j][3] # MISSING) =>
             /\ parsing.pc = "failed"
             /\ parsing.i = j
             /\ parsing.exc = "NotSupportedError"
             /\ parsing.sig = <<>>

C13_Witness ==
    /\ parsing.pc = "failed"
    /\ parsing.exc = "NotSupportedError"
    /\ parsing.i = 1
    /\ decl.params[1][1] \in decl.path_keys
    /\ decl.params[1][3] = IntV(0)

\* C14: every EndpointReturn whose status is below 200 or is 204, 205 or
\* 304 has an empty type, in every signature and on every endpoint that is
\* set up; a return annotation pairing such a status with another type ends
\* the parse with StatusConflictError.
C14_BodylessStatusEmptyType ==
    /\ \A i \in DOMAIN parsing.return_params :
          LET ret == parsing.return_params[i][2]
          IN (ret.status < 200 \/ ret.status \in {204, 205, 304})
                => ret.type_ \in {"None", "Literal[None]"}
    /\ (parsing.pc = "failed" /\ parsing.exc = "StatusConflictError")
          => parsing.return_params = <<>>

\* The return annotation is a union whose members each carry a status marker.
EveryMemberMarked ==
    /\ decl.ret.k = "Union"
    /\ \A i \in DOMAIN decl.ret.args :
          /\ decl.ret.args[i].k = "Annotated"
          /\ \E j \in DOMAIN decl.ret.args[i].metadata :
                decl.ret.args[i].metadata[j].k = "status"

\* C15: for a union return annotation in which every member carries its own
\* status marker, a parse that succeeds answers a status-code map with
\* exactly one entry per member of the union, and a parse that does not
\* succeed ends with an error.
C15_OneEntryPerMember ==
    (EveryMemberMarked /\ parsing.pc \notin {"params", "idle"}) =>
       IF parsing.pc = "failed"
       THEN parsing.exc \in {"NotSupportedError", "StatusConflictError"}
       ELSE Len(parsing.return_params) = Len(decl.ret.args)

\* C16: a parameter (not a path key) whose type is registered in the graph
\* and shaped like a payload is a dependency when it is declared without a
\* marker, and never a body parameter; declared with an explicit body marker
\* it is a BodyParam whether or not its type is registered.
C16_DependencyBeforeBody ==
    \A j \in DOMAIN parsing.results :
       LET annt == decl.params[j][2]
           param == parsing.results[j]
       IN decl.params[j][1] \notin decl.path_keys =>
            /\ (annt = Cls("Payload") /\ "Payload" \in decl.registered) =>
                  /\ param.source = "dependency"
                  /\ param.dependent = "Payload"
            /\ (annt.k = "Annotated"
                  /\ \E m \in DOMAIN annt.metadata :
                        annt.metadata[m] = Meta("Param", "body")) =>
                  /\ param.source = "body"
                  /\ param.type_ = "Payload"

C16_Witness ==
    /\ "Payload" \in decl.registered
    /\ decl.path_keys = {}
    /\ parsing.pc = "setup"
    /\ Len(parsing.results) = 2
    /\ decl.params[1][2] = Cls("Payload")
    /\ parsing.results[1].source = "dependency"
    /\ decl.params[2][2].k = "Annotated"
    /\ parsing.results[2].source = "body"
    /\ parsing.sig[1].body_param[1] = "b"

\* ------------------------------------------------------------------ type resolution
\* The class under the wrappers of a type expression, and the metadata of
\* its wrappers from the innermost to the outermost.
RECURSIVE BaseOf(_)
BaseOf(t) ==
    CASE t.k = "TypeAliasType" -> BaseOf(t.value)
      [] t.k = "Annotated" -> BaseOf(t.origin)
      [] OTHER -> t

RECURSIVE InsideOut(_)
InsideOut(t) ==
    CASE t.k = "TypeAliasType" -> InsideOut(t.value)
      [] t.k = "Annotated" -> InsideOut(t.origin) \o t.metadata
      [] OTHER -> <<>>

Occurrences(param, conn) ==
    LET wire == IF param.source = "query" THEN conn.query_params ELSE conn.headers
    IN IF param.alias \in DOMAIN wire THEN wire[param.alias] ELSE <<>>

\* The query and header parameters of the endpoint (cookies left out).
WireParams ==
    {i \in DOMAIN RequestParams :
        /\ RequestParams[i].source \in {"query", "header"}
        /\ RequestParams[i].cookie_name = "None"}

\* C18: a query or header parameter whose type is a list or a tuple reads
\* every occurrence of its key, in wire order: occurrences that are all
\* integers decode to the list, or the tuple, of those integers in that order.
C18_AllOccurrencesInOrder ==
    \A r \in Reqs : \A i \in WireParams :
       LET q == req[r]
           param == RequestParams[i]
           raws == Occurrences(param, q.conn)
           Num(x) == CASE x = "0" -> 0 [] x = "1" -> 1 [] x = "2" -> 2
       IN (/\ ExtractionOver(q)
           /\ param.type_ \in {"list_int", "tuple_int"}
           /\ raws # <<>>
           /\ \A k \in DOMAIN raws : raws[k] \in {"0", "1", "2"}) =>
              /\ param.name \in DOMAIN q.parsed.params
              /\ q.parsed.params[param.name].t
                    = (IF param.type_ = "list_int" THEN "list" ELSE "tuple")
              /\ q.parsed.params[param.name].xs = [k \in DOMAIN raws |-> Num(raws[k])]

C18_Witness ==
    \E r \in Reqs :
       /\ ep.sig = SigQuery
       /\ req[r].pc = "done"
       /\ "n" \in DOMAIN req[r].conn.query_params
       /\ "x-t" \in DOMAIN req[r].conn.headers
       /\ req[r].conn.query_params["n"] = <<"2", "1">>
       /\ req[r].conn.headers["x-t"] = <<"1", "2">>
       /\ req[r].parsed.params["n"] = TupleV(<<2, 1>>)
       /\ req[r].parsed.params["t"] = ListV(<<1, 2>>)
       /\ Count(req[r].log, "handler") = 1

\* The value a raw occurrence list decodes to for the parameter's type;
\* MISSING when it does not decode.
Decoded(param, raws) ==
    LET Num(x) == CASE x = "0" -> 0 [] x = "1" -> 1 [] x = "2" -> 2
        ints == \A k \in DOMAIN raws : raws[k] \in {"0", "1", "2"}
    IN CASE param.type_ = "str" -> StrV(raws[1])
         [] ~ints -> MISSING
         [] param.type_ = "int" -> IntV(Num(raws[1]))
         [] param.type_ = "tuple_int" -> TupleV([k \in DOMAIN raws |-> Num(raws[k])])
         [] OTHER -> ListV([k \in DOMAIN raws |-> Num(raws[k])])

\* C19: for every query or header parameter of the handler (one that is not
\* only there for a dependency) that the Injector has extracted, the
\* default is used exactly when the key is absent from the request: absent
\* with a default gives the default (a copy of it for a multi-valued
\* parameter), absent without a default gives a MissingRequestParam problem,
\* and a key that is present is decoded, falsy or not, never defaulted.
C19_DefaultIffAbsent ==
    \A r \in Reqs : \A i \in WireParams :
       LET q == req[r]
           param == RequestParams[i]
           raws == Occurrences(param, q.conn)
           params == q.parsed.params
           taken == \E k \in DOMAIN q.parsed.order : q.parsed.order[k][2] = param.name
           problems == {q.parsed.errors[k] : k \in DOMAIN q.parsed.errors}
       IN (/\ taken
           /\ param.name \notin ep.sig.transitive_params
           /\ param.multivals \/ Len(raws) <= 1) =>
            IF raws = <<>>
            THEN IF param.default = MISSING
                 THEN /\ param.name \notin DOMAIN params
                      /\ Problem("MissingRequestParam", param.source, param.alias)
                            \in problems
                 ELSE /\ param.name \in DOMAIN params
                      /\ \/ params[param.name] = param.default
                         \/ /\ param.multivals
                            /\ param.default.t = "ref"
                            /\ params[param.name].t = "ref"
                            /\ params[param.name].id.of = param.default.id.of
            ELSE IF Decoded(param, raws) = MISSING
                 THEN /\ param.name \notin DOMAIN params
                      /\ Problem("InvalidDataType", param.source, param.name) \in problems
                 ELSE /\ param.name \in DOMAIN params
                      /\ params[param.name] = Decoded(param, raws)

C19_Witness ==
    \E r1, r2 \in Reqs :
       /\ ep.sig = SigQuery
       /\ req[r1].pc = "done" /\ req[r2].pc = "done"
       /\ DOMAIN req[r1].conn.query_params = {"n"}
       /\ DOMAIN req[r1].conn.headers = {"x-t"}
       /\ req[r1].args # MISSING
       /\ req[r1].args["q"] = IntV(42)
       /\ req[r1].args["h"] = IntV(7)
       /\ DOMAIN req[r2].conn.query_params = {"q"}
       /\ DOMAIN req[r2].conn.headers = {"x-h"}
       /\ req[r2].parsed.params = [q |-> IntV(0), h |-> IntV(0)]
       /\ req[r2].parsed.errors = << Problem("MissingRequestParam", "header", "x-t"),
                                     Problem("MissingRequestParam", "query", "n") >>

\* ------------------------------------------------------------------ threads
\* C20: a synchronous handler on an endpoint whose to_thread flag is set
\* runs on a worker thread of the pool, not on the event-loop thread, for
\* every request to the endpoint.
C20_SyncHandlerOffLoop ==
    \A r \in Reqs :
       (~ep.func.coroutine /\ ep.func.to_thread /\ req[r].thread # "None")
          => req[r].thread = "worker"


\* ------------------------------------------------------------------ validation gate
\* The dependencies resolved so far for a request.
Resolved(q) == {i \in DOMAIN q.parsed.order : q.parsed.order[i][1] = "dep"}

\* C21: a request with an invalid header, cookie, path, query or body
\* parameter never has a dependency resolved nor its handler invoked; when a
\* dependency is resolved or the handler is invoked, no problem was collected
\* and every request parameter has a value (the handler is not given the
\* transitive ones).
C21_ValidBeforeDeps ==
    \A r \in Reqs :
        LET q == req[r]
            bad == InvalidParams(RequestParams, q.conn)
            names == {RequestParams[i].name : i \in DOMAIN RequestParams}
        IN /\ (q.pc # "idle" /\ bad # <<>>) =>
                /\ q.pc # "deps"
                /\ Resolved(q) = {}
                /\ Count(q.log, "handler") = 0
           /\ Resolved(q) # {} => q.parsed.errors = <<>>
           /\ q.pc = "deps" =>
                /\ q.parsed.errors = <<>>
                /\ names \subseteq DOMAIN q.parsed.params
           /\ Count(q.log, "handler") > 0 =>
                /\ q.parsed.errors = <<>>
                /\ names \ injector.transitive_params \subseteq DOMAIN q.args

\* A request with an invalid parameter to a handler that has a dependency has
\* ended, and another request to it has had the dependency resolved and the
\* handler invoked.
C21_Witness ==
    /\ injector.deps # <<>>
    /\ \E r \in Reqs :
          /\ req[r].pc = "done"
          /\ InvalidParams(RequestParams, req[r].conn) # <<>>
          /\ req[r].parsed.errors # <<>>
    /\ \E r \in Reqs :
          /\ Resolved(req[r]) # {}
          /\ Count(req[r].log, "handler") > 0


\* ------------------------------------------------------------------ middleware order
\* C22: the call stack a route's set-up builds from the factory list
\* [f1, ..., fn] it reads is f1(f2(...fn(endpoint))): a request dispatched
\* through it goes through f1, ..., fn in list order, each once, and then
\* reaches the endpoint.
C22_FirstFactoryOutermost ==
    /\ \A i \in DOMAIN routes :
          routes[i].call_stack # NoApp =>
             traverse(routes[i].call_stack) = routes[i].at_setup \o <<TheEndpoint>>
    /\ trace # <<>> =>
          trace[2] = routes[trace[1]].at_setup \o <<TheEndpoint>>

\* A request has gone through a route that still has the list its
\* constructor was given, which held two factories at its set-up.
C22_Witness ==
    /\ trace # <<>>
    /\ LET r == routes[trace[1]]
       IN /\ r.given # NoList
          /\ r.middle_factories = r.given
          /\ Len(r.at_setup) = 2
          /\ Len(trace[2]) = 3


\* ------------------------------------------------------------------ late registration
\* C23: a request that arrives at a set-up route for a method with a
\* registered endpoint is served by the endpoint registered last for the
\* method, which is set up: it is not answered with 405 and not served by an
\* endpoint that was replaced.
C23_ServedByLatest ==
    \A method \in Methods :
        LET latest == EndpointOf(rt_endpoints, method)
            endpoint == Route_dispatch(rt_call_stacks, method)
        IN (rt_is_setup /\ latest # 0) =>
              /\ endpoint # METHOD_NOT_ALLOWED_RESP
              /\ endpoint = latest
              /\ eps[latest].is_setup


\* ------------------------------------------------------------------ WebSocket failures
\* Where in the log the entry is, 0 when it is not there.
Pos(log, what) ==
    IF Count(log, what) = 0 THEN 0
    ELSE CHOOSE i \in DOMAIN log : log[i] = what

\* The exception a WebSocket call failed with: raised by validation, by a
\* dependency or by the handler (a cancellation is none of them).
Failure(q) ==
    IF q.exc \in {"None", "CancelledError"} THEN "None" ELSE q.exc

\* C24: a WebSocket call in which validation, a dependency or the handler
\* raised has closed the socket once, inside make_call (before the scope, if
\* any, is left), when the exception leaves the endpoint, and the exception
\* that leaves is the one raised.
C24_ClosedBeforeReraise ==
    ep.kind = "ws" =>
      \A r \in Reqs :
          LET q == req[r]
          IN /\ (q.pc \in {"exit", "done"} /\ Failure(q) # "None") =>
                   /\ Count(q.log, "ws_close") = 1
                   /\ Count(q.log, "exit_scope") = 1 =>
                         Pos(q.log, "ws_close") < Pos(q.log, "exit_scope")
                   /\ q.raised # "None" => q.exc = q.raised
                   /\ q.ret = "None"
             /\ Count(q.log, "ws_close") = 1 => Failure(q) # "None"

\* One WebSocket call has failed in validation and another in the handler,
\* both with the socket closed.
C24_Witness ==
    /\ ep.kind = "ws"
    /\ \E r \in Reqs :
          /\ req[r].pc = "done"
          /\ req[r].exc = "InvalidRequestErrors"
          /\ Count(req[r].log, "ws_close") = 1
    /\ \E r \in Reqs :
          /\ req[r].pc = "done"
          /\ req[r].raised = "DomainError"
          /\ Count(req[r].log, "ws_close") = 1


\* ------------------------------------------------------------------ scope and response
\* C25: a request to a scoped endpoint that is answered with a response has
\* its scope open until the response has been sent: the scope is left only
\* after the send is over, and its resolver is open while the response is
\* being sent.
C25_ScopeOutlivesResponse ==
    (ep.kind = "http" /\ ep.scoped) =>
      \A r \in Reqs :
          LET q == req[r]
          IN /\ q.pc = "send" => q.resolver \in scopes
             /\ (Count(q.log, "exit_scope") = 1 /\ q.exc = "None") =>
                   /\ Count(q.log, "send") = 1
                   /\ Pos(q.log, "send") < Pos(q.log, "exit_scope")


\* ------------------------------------------------------------------ guarded commands
\* C26: every command sent through the bus is received by the handler
\* registered for its own type, whatever other commands are in flight and
\* whichever guard instances they share.
C26_DeliveredToOwnHandler ==
    \A s \in DOMAIN sends :
        sends[s].pc = "done" => sends[s].handled_by = sends[s].type


\* ------------------------------------------------------------------ plugin chain
\* The distinct plugins of the list, in the order of their first occurrence.
RECURSIVE Distinct(_)
Distinct(xs) ==
    IF xs = <<>> THEN <<>>
    ELSE <<Head(xs)>> \o Distinct(SelectSeq(Tail(xs), LAMBDA x : x # Head(xs)))

\* C27: an endpoint's set-up has called each distinct plugin of its props
\* once, in list order (a plugin listed again is skipped), the first with the
\* handler and each next one with the function the previous one answered; the
\* endpoint's function is what the last one answered.
C27_EachPluginOnceInOrder ==
    parsing.pc = "setup" =>
       LET calls == parsing.applied
           due == Distinct(decl.plugins)
       IN /\ Len(calls) = Len(due)
          /\ \A k \in DOMAIN calls :
                /\ calls[k].decor = due[k]
                /\ calls[k].func = IF k = 1 THEN <<"handler">>
                                   ELSE <<calls[k - 1].decor>> \o calls[k - 1].func
          /\ parsing.func = IF calls = <<>> THEN <<"handler">>
                            ELSE <<calls[Len(calls)].decor>> \o calls[Len(calls)].func

\* An endpoint whose props list a plugin twice with another one between has
\* been set up.
C27_Witness ==
    /\ parsing.pc = "setup"
    /\ Len(decl.plugins) = 3
    /\ decl.plugins[1] = decl.plugins[3]
    /\ decl.plugins[1] # decl.plugins[2]
    /\ Len(parsing.applied) = 2


\* ------------------------------------------------------------------ middleware lists
\* The factories route j holds.
FactoriesOf(ls, rs, j) == ls[rs[j].middle_factories]

\* C28: add_middleware on route i, with one factory or with a sequence,
\* leaves the factories of every other route as they were, and the contents
\* of every list object a caller passed to a route constructor.
C28_OnlyOwnListChanges ==
    [][ \A i \in DOMAIN routes :
          (AddMiddleware(i) \/ AddMiddlewares(i)) =>
             /\ \A j \in DOMAIN routes \ {i} :
                   FactoriesOf(lists', routes', j) = FactoriesOf(lists, routes, j)
             /\ \A j \in DOMAIN routes :
                   routes[j].given # NoList =>
                      lists'[routes[j].given] = lists[routes[j].given] ]_vars


\* ------------------------------------------------------------------ solver registry
\* C29: get_solver answers the solver registered for the key when it is
\* called (the exact status, or the nearest class of the exception's MRO),
\* whatever was looked up before the registrations.
C29_CurrentSolver ==
    [][ \A exc \in Lookups :
          GetSolver(exc) => answer'[2] = get_solver_body(handlers, exc) ]_vars


\* ------------------------------------------------------------------ method helpers
\* C30: each registration helper, called with the function or called with
\* props only and then applied to the function, registers a new endpoint for
\* the function under the helper's own method.
C30_RegistersOwnMethod ==
    [][ \A name \in Helpers, direct \in BOOLEAN, f \in Funcs, ps \in PluginLists :
          RouteHelper(name, direct, f, ps) =>
             /\ EndpointOf(rt_endpoints', upper(name)) = Len(eps')
             /\ eps'[Len(eps')].method = upper(name)
             /\ eps'[Len(eps')].func = f ]_vars

====
